---- MODULE Spec2Model ----
(***************************************************************************)
(* vlab_ipam_api: the port-mapping saga (PortMapView.post / .delete), the  *)
(* FireWall wrapper around iptables and the Database wrapper around the    *)
(* ipam table, modelled as a state machine.  Every external command        *)
(* (one iptables invocation, one SQL statement) is one atomic step of the  *)
(* request thread that issues it; each such command may fail.              *)
(***************************************************************************)
EXTENDS Integers, Sequences, FiniteSets, TLC

\* ---------------------------------------------------------------- bounds
NumThreads == 2          \* request-handling threads
MaxFail == 1             \* external commands / statements that may fail in a run
MaxReqs == 2             \* requests started in a run of the threaded machine
MaxSeqReqs == 3          \* requests started in a run of the one-thread machine
MaxSeqFail == 2          \* commands that may fail in a run of the one-thread machine
MaxCalls == 2            \* repeated calls of one method with the same arguments
NumWorkers == 2          \* worker threads of the prober (THREAD_COUNT is 10)
MaxGuardReqs == 1        \* requests served beside the calls of FireWall methods
MaxRounds == 2           \* rounds of tasks do_work produces
MaxRules == 2            \* port-map rules in a table when a method is called on its own

\* ------------------------------------------------------- program constants
\* read from the environment (constants.py); the gateway modelled here runs
\* with VLAB_PORT_MAX=50001 and VLAB_INSERT_MAX_TRIES=2
VLAB_PORT_MIN == 50000
VLAB_PORT_MAX == 50001
VLAB_INSERT_MAX_TRIES == 2

Threads == 1..NumThreads
Ports == VLAB_PORT_MIN..VLAB_PORT_MAX

\* request inputs
TargetAddrs == {"10.0.0.1", "10.0.0.2"}
TargetPorts == {22}
TargetNames == {"myBox"}
TargetComponents == {"OneFS"}

\* Python's None, for an integer-valued and for a string-valued name
None == -1
NoneStr == "None"

\* Python truthiness of the values the handlers test with ``and`` / ``not``
TruthyInt(x) == x # None /\ x # 0
TruthyStr(s) == s # NoneStr /\ s # ""

\* ------------------------------------------------------------ rule tables
\* The FORWARD chain of a deployed gateway starts with its two built-in
\* rules (LOG, ACCEPT all); the parser skips line numbers 1 and 2.
DefaultRule == [target_addr |-> "0.0.0.0/0", target_port |-> 0]
DefaultFilter == <<DefaultRule, DefaultRule>>

FilterRule(target_addr, target_port) ==
    [target_addr |-> target_addr, target_port |-> target_port]
NatRule(conn_port, target_addr, target_port) ==
    [conn_port |-> conn_port, target_addr |-> target_addr, target_port |-> target_port]

\* _prettify_nat_output: every listed row, keyed by its line number
PrettifyNat(table) == [i \in 1..Len(table) |-> table[i]]
\* _prettify_filter_output: rows '1' and '2' are skipped
PrettifyFilter(table) == [i \in (1..Len(table)) \ {1, 2} |-> table[i]]

\* info.get('conn_port', None)
InfoConnPort(info) == IF "conn_port" \in DOMAIN info THEN info.conn_port ELSE None

SetMin(S) == CHOOSE x \in S : \A y \in S : x <= y

\* a lookup that does not compare conn_port (the variant C7 is checked against)
FindRuleAnyConnPort(rules, target_port, target_addr, conn_port) ==
    LET hits == {i \in DOMAIN rules :
                    /\ rules[i].target_addr = target_addr
                    /\ rules[i].target_port = target_port}
    IN  IF hits = {} THEN 0 ELSE SetMin(hits)

\* find_rule's loop over the parsed rules: the first matching rule id, or 0
FindRuleId(rules, target_port, target_addr, conn_port) ==
    LET hits == {i \in DOMAIN rules :
                    /\ rules[i].target_addr = target_addr
                    /\ rules[i].target_port = target_port
                    /\ conn_port = InfoConnPort(rules[i])}
    IN  IF hits = {} THEN 0 ELSE SetMin(hits)

\* ``if not current_id: raise RuntimeError``
FindRuleRaises(id) == id = 0

\* a delete that counts lines from zero (the variant C4 is checked against)
RemoveAtFromZero(table, i) ==
    [j \in 1..(Len(table) - 1) |-> IF j < i - 1 THEN table[j] ELSE table[j + 1]]

\* iptables -D <chain> <rule_id>
RemoveAt(table, i) ==
    [j \in 1..(Len(table) - 1) |-> IF j < i THEN table[j] ELSE table[j + 1]]

\* ----------------------------------------------------------- record store
Row(conn_port, target_addr, target_port, target_name, target_component) ==
    [conn_port |-> conn_port, target_addr |-> target_addr,
     target_port |-> target_port, target_name |-> target_name,
     target_component |-> target_component, routable |-> "NULL"]

\* the UNIQUE constraint on ipam.conn_port: pgcode 23505 when it is violated
UniqueViolation(rows, conn_port) == \E r \in rows : r.conn_port = conn_port

\* a DELETE without its WHERE clause (the variant C3 is checked against)
DeleteEveryRow(rows, conn_port) == {}

\* a DELETE whose WHERE clause reads conn_port >= (%s) (the variant C21 is
\* checked against)
DeleteRowsFrom(rows, conn_port) == {r \in rows : r.conn_port < conn_port}

\* DELETE FROM ipam WHERE conn_port=(%s)
DeleteRows(rows, conn_port) == {r \in rows : r.conn_port # conn_port}

\* port_info: SELECT target_port, target_addr ... rows[0], or (None, None)
PortInfo(rows, conn_port) ==
    LET m == {r \in rows : r.conn_port = conn_port}
    IN  IF m = {} THEN <<None, NoneStr>>
        ELSE LET r == CHOOSE x \in m : TRUE IN <<r.target_port, r.target_addr>>

\* a check that is content with one of the two rule ids (the variant C10
\* is checked against)
RecordsValidEitherRule(nat_id, filter_id, target_port, target_addr) ==
    LET db == TruthyInt(target_port) /\ TruthyStr(target_addr)
        fw == TruthyInt(nat_id) \/ TruthyInt(filter_id)
    IN  IF db /\ ~fw
          THEN <<"DB record exist, but no iptable record; contact admin.", 500>>
        ELSE IF ~db /\ fw
          THEN <<"iptable record exist, but no DB record; contact admin.", 500>>
        ELSE IF ~(db /\ fw)
          THEN <<"No such port mapping record", 404>>
        ELSE <<"", 200>>

\* records_valid
RecordsValid(nat_id, filter_id, target_port, target_addr) ==
    LET db == TruthyInt(target_port) /\ TruthyStr(target_addr)
        fw == TruthyInt(nat_id) /\ TruthyInt(filter_id)
    IN  IF db /\ ~fw
          THEN <<"DB record exist, but no iptable record; contact admin.", 500>>
        ELSE IF ~db /\ fw
          THEN <<"iptable record exist, but no DB record; contact admin.", 500>>
        ELSE IF ~(db /\ fw)
          THEN <<"No such port mapping record", 404>>
        ELSE <<"", 200>>

\* ------------------------------------------------------------------ state
VARIABLES
    rows,        \* the ipam table: a set of rows
    nat,         \* PREROUTING chain of the nat table, in listing order
    filter,      \* FORWARD chain of the filter table, in listing order
    rlock,       \* app.firewall._rlock: [owner, count]
    pc,          \* per thread: where its request handler stands
    op,          \* per thread: "none", "create" or "destroy"
    loc,         \* per thread: the handler's local variables
    resp,        \* per thread: the response of its last request
    fails,       \* number of failed external commands so far
    reqs,        \* number of requests started so far
    before,      \* history: the stores as they were when the last Create began
    rv,          \* a call of records_valid: its arguments and its result
    ap,          \* a call of add_port: its arguments, its attempts and its result
    call,        \* a call of one Database or FireWall method on its own
    pool         \* the liveness prober: its queue, its workers and do_work

vars == <<rows, nat, filter, rlock, pc, op, loc, resp, fails, reqs, before, rv, ap, call, pool>>

NoLocals == [conn_port |-> None, target_port |-> None, target_addr |-> NoneStr,
             target_name |-> NoneStr, target_component |-> NoneStr,
             tries |-> 0, forward_id |-> 0, prerouting_id |-> 0,
             nat_id |-> 0, filter_id |-> 0, doh |-> ""]

NoResp == [status |-> 0, error |-> "", conn_port |-> None]

\* the history of the last Create is recorded only when ``on`` is set
NoHistory == [on |-> FALSE, armed |-> FALSE, rows |-> {}, nat |-> <<>>,
              filter |-> <<>>, fails |-> 0]

NoCall == [args |-> <<0, 0, 0, "">>, out |-> <<>>]

NoAdd == [args |-> <<"", 0, "", "">>, table |-> {}, tries |-> 0, codes |-> <<>>,
          ports |-> <<>>, out |-> "none", value |-> None, error |-> "",
          pgcode |-> ""]

\* no method is being called on its own
NoMethod == [fn |-> "none", args |-> <<>>, table |-> <<>>, hist |-> <<>>,
             out |-> "none", value |-> <<>>]

\* the prober is a process of its own: nothing of it while only the API runs
NoPool == [queue |-> <<>>, run |-> <<>>, keep_running |-> <<>>, task |-> <<>>,
           routable |-> <<>>, do_work |-> "none", records |-> <<>>,
           rounds |-> 0]

InitProgram ==
    /\ rows = {}
    /\ nat = <<>>
    /\ filter = DefaultFilter
    /\ rlock = [owner |-> 0, count |-> 0]
    /\ pc = [t \in Threads |-> "idle"]
    /\ op = [t \in Threads |-> "none"]
    /\ loc = [t \in Threads |-> NoLocals]
    /\ resp = [t \in Threads |-> NoResp]
    /\ fails = 0
    /\ reqs = 0

Init ==
    /\ InitProgram
    /\ before = NoHistory
    /\ pool = NoPool
    /\ rv = NoCall
    /\ ap = NoAdd
    /\ call = NoMethod


\* ------------------------------------------------------------- the guard
\* a guard that never blocks (the variant C5 is checked against)
NeverBlocks(t) == TRUE

\* a plain Lock, which blocks its own holder (the variant C38 is checked
\* against)
NotReentrant(t) == rlock.owner = 0

\* an __exit__ that forgets to release (the variant C37 is checked against)
NoRelease(l) == l

\* RLock: free, or re-entered by its owner
Acquirable(t) == rlock.owner \in {0, t}
Acquire(l, t) == [owner |-> t, count |-> l.count + 1]
Release(l) == IF l.count <= 1 THEN [owner |-> 0, count |-> 0]
              ELSE [l EXCEPT !.count = l.count - 1]

\* ------------------------------------------------------- error messages
E_DB_CONNECT == "psycopg2.connect failed"
E_DB_INSERT == "DatabaseError: INSERT INTO ipam"
E_MAX_TRIES == "Failed to create port map after VLAB_INSERT_MAX_TRIES tries"
E_DB_SELECT == "DatabaseError: SELECT FROM ipam"
E_DB_DELETE == "DatabaseError: DELETE FROM ipam"
E_UNBOUND == "UnboundLocalError"
E_FWD_APPEND == "CliError: iptables -A FORWARD"
E_PRE_APPEND == "CliError: iptables -A PREROUTING"
E_LIST_FILTER == "CliError: iptables -L FORWARD -t filter"
E_LIST_NAT == "CliError: iptables -L PREROUTING -t nat"
E_DEL_FILTER == "CliError: iptables -t filter -D FORWARD"
E_DEL_NAT == "CliError: iptables -t nat -D PREROUTING"
E_SAVE == "CliError: iptables-save"
E_FWD_LOST == "Unable to find newly created FORWARD rule"
E_PRE_LOST == "Unable to find newly created PERROUTING rule"
E_NOT_FOUND == "Unable to find iptable rule"

\* an external command or SQL statement either succeeds or, while the
\* failure budget lasts, fails
FailBound == IF before.on THEN MaxSeqFail ELSE MaxFail
Outcomes == IF fails < FailBound THEN {TRUE, FALSE} ELSE {TRUE}
Count(ok) == fails' = IF ok THEN fails ELSE fails + 1

\* ----------------------------------------------------- how a request ends
\* the view returns a Response; its locals are gone
Respond(t, status, error, conn_port) ==
    /\ pc' = [pc EXCEPT ![t] = "done"]
    /\ loc' = [loc EXCEPT ![t] = NoLocals]
    /\ resp' = [resp EXCEPT ![t] = [status |-> status, error |-> error,
                                    conn_port |-> conn_port]]

\* an exception leaves the view function
Escape(t, error) ==
    /\ pc' = [pc EXCEPT ![t] = "raised"]
    /\ loc' = [loc EXCEPT ![t] = NoLocals]
    /\ resp' = [resp EXCEPT ![t] = [status |-> 500, error |-> error,
                                    conn_port |-> None]]

\* the handler goes on to its next command with locals l
Goto(t, label, l) ==
    /\ pc' = [pc EXCEPT ![t] = label]
    /\ loc' = [loc EXCEPT ![t] = l]
    /\ UNCHANGED resp

\* an exception leaves map_port's ``with self`` block.  In post it is caught
\* by ``except Exception`` (line 135); in delete map_port is the compensation
\* run inside remove_port_map's handler, so the exception leaves
\* remove_port_map and the ``with current_app.firewall`` block and is caught
\* at line 168.
MapPortRaises(t, error) ==
    IF op[t] = "create"
    THEN /\ rlock' = Release(rlock)
         /\ Goto(t, "post_except", [loc[t] EXCEPT !.doh = error])
    ELSE /\ rlock' = Release(Release(rlock))
         /\ Respond(t, 500, error, None)

\* an exception leaves forward(): inside map_port, or inside the handler of
\* remove_port_map (line 267)
ForwardRaises(t, error) ==
    IF pc[t] \in {"map_fwd_append", "map_fwd_find"}
    THEN MapPortRaises(t, error)
    ELSE /\ rlock' = Release(rlock)
         /\ Respond(t, 500, error, None)

\* a request is taken by the first free thread of the pool
Free(t) == pc[t] \in {"idle", "done", "raised"}
ReqBound == IF before.on THEN MaxSeqReqs ELSE MaxReqs
Takes(t) ==
    /\ Free(t)
    /\ \A u \in Threads : u < t => ~Free(u)
    /\ reqs < ReqBound

\* ------------------------------------------------ PortMapView.post (Create)
\* the request arrives and post opens its connection: db = Database()
StartCreate(t) ==
    /\ Takes(t)
    /\ \E a \in TargetAddrs, p \in TargetPorts, n \in TargetNames,
          c \in TargetComponents, ok \in Outcomes :
          /\ Count(ok)
          /\ op' = [op EXCEPT ![t] = "create"]
          /\ IF ok
             THEN /\ pc' = [pc EXCEPT ![t] = "add_port"]
                  /\ loc' = [loc EXCEPT ![t] = [NoLocals EXCEPT !.target_addr = a,
                               !.target_port = p, !.target_name = n,
                               !.target_component = c]]
                  /\ resp' = [resp EXCEPT ![t] = NoResp]
             ELSE Respond(t, 500, E_DB_CONNECT, None)
    /\ before' = IF before.on
                 THEN [on |-> TRUE, armed |-> FALSE, rows |-> rows, nat |-> nat,
                       filter |-> filter, fails |-> fails]
                 ELSE before
    /\ reqs' = reqs + 1
    /\ UNCHANGED <<rows, nat, filter, rlock, rv, ap, call, pool>>

\* a table without the UNIQUE constraint (the variant C6 is checked against)
InsertUnconstrained(table, conn_port, ok) == IF ~ok THEN "08006" ELSE "00000"

\* Database.execute of the INSERT: the pgcode the statement ends with
InsertPgcode(table, conn_port, ok) ==
    IF ~ok THEN "08006"
    ELSE IF UniqueViolation(table, conn_port) THEN "23505"
    ELSE "00000"

\* a loop that gives up at the first collision (the variant C17 is checked
\* against)
AddPortStepNoRetry(pgcode, tries) ==
    IF pgcode = "00000" THEN "return" ELSE "raise"

\* a loop that ends its last collision with the store's error (the variant
\* C18 is checked against)
AddPortStepNoCapacityError(pgcode, tries) ==
    IF pgcode = "00000" THEN "return"
    ELSE IF pgcode = "23505" /\ tries + 1 < VLAB_INSERT_MAX_TRIES THEN "continue"
    ELSE "raise"

\* a loop that tries again after any error (the variant C19 is checked
\* against)
AddPortStepRetryAny(pgcode, tries) ==
    IF pgcode = "00000" THEN "return"
    ELSE IF tries + 1 < VLAB_INSERT_MAX_TRIES THEN "continue"
    ELSE "exhausted"

\* what one pass of add_port's for loop does with the pgcode
AddPortStep(pgcode, tries) ==
    IF pgcode = "00000" THEN "return"
    ELSE IF pgcode = "23505"
         THEN (IF tries + 1 < VLAB_INSERT_MAX_TRIES THEN "continue" ELSE "exhausted")
    ELSE "raise"

\* one pass of add_port's loop.  When add_port raises, post's handler runs
\* db.delete_port(conn_port) with conn_port unbound: UnboundLocalError
\* leaves the view (after ``finally: db.close()``).
AddPort(t) ==
    /\ pc[t] = "add_port"
    /\ \E p \in Ports, ok \in Outcomes :
          LET pgcode == InsertPgcode(rows, p, ok)
              step == AddPortStep(pgcode, loc[t].tries)
              l == loc[t]
          IN  /\ Count(ok)
              /\ rows' = IF pgcode = "00000"
                         THEN rows \cup {Row(p, l.target_addr, l.target_port,
                                             l.target_name, l.target_component)}
                         ELSE rows
              /\ CASE step = "return" ->
                        Goto(t, "map_enter", [l EXCEPT !.conn_port = p])
                   [] step = "continue" ->
                        Goto(t, "add_port", [l EXCEPT !.tries = l.tries + 1])
                   [] OTHER ->
                        Escape(t, E_UNBOUND)
    /\ UNCHANGED <<nat, filter, rlock, op, reqs, before, rv, ap, call, pool>>

\* ------------------------------------------------------ FireWall.map_port
\* ``with self:`` blocks until the guard is free or already owned
MapPortEnter(t) ==
    /\ pc[t] = "map_enter"
    /\ Acquirable(t)
    /\ rlock' = Acquire(rlock, t)
    /\ Goto(t, "map_fwd_append", loc[t])
    /\ UNCHANGED <<rows, nat, filter, op, fails, reqs, before, rv, ap, call, pool>>

\* forward(): iptables -A FORWARD ... -j ACCEPT
ForwardAppend(t) ==
    /\ pc[t] \in {"map_fwd_append", "rm_fwd_append"}
    /\ \E ok \in Outcomes :
          /\ Count(ok)
          /\ IF ok
             THEN /\ filter' = Append(filter, FilterRule(loc[t].target_addr, loc[t].target_port))
                  /\ Goto(t, IF pc[t] = "map_fwd_append" THEN "map_fwd_find"
                             ELSE "rm_fwd_find", loc[t])
                  /\ UNCHANGED rlock
             ELSE /\ filter' = filter
                  /\ ForwardRaises(t, E_FWD_APPEND)
    /\ UNCHANGED <<rows, nat, op, reqs, before, rv, ap, call, pool>>

\* forward(): find_rule(target_port, target_addr, table='filter')
ForwardFind(t) ==
    /\ pc[t] \in {"map_fwd_find", "rm_fwd_find"}
    /\ Acquirable(t)
    /\ \E ok \in Outcomes :
          LET id == FindRuleId(PrettifyFilter(filter), loc[t].target_port,
                               loc[t].target_addr, None)
          IN  /\ Count(ok)
              /\ IF ~ok THEN ForwardRaises(t, E_LIST_FILTER)
                 ELSE IF FindRuleRaises(id) THEN ForwardRaises(t, E_FWD_LOST)
                 ELSE /\ Goto(t, IF pc[t] = "map_fwd_find" THEN "map_pre_append"
                                 ELSE "rm_save", [loc[t] EXCEPT !.forward_id = id])
                      /\ UNCHANGED rlock
    /\ UNCHANGED <<rows, nat, filter, op, reqs, before, rv, ap, call, pool>>

\* prerouting(): iptables -A PREROUTING -t nat ... -j DNAT
PreroutingAppend(t) ==
    /\ pc[t] = "map_pre_append"
    /\ \E ok \in Outcomes :
          /\ Count(ok)
          /\ IF ok
             THEN /\ nat' = Append(nat, NatRule(loc[t].conn_port, loc[t].target_addr,
                                                loc[t].target_port))
                  /\ Goto(t, "map_pre_find", loc[t])
             ELSE /\ nat' = nat
                  /\ Goto(t, "map_undo", [loc[t] EXCEPT !.doh = E_PRE_APPEND])
    /\ UNCHANGED <<rows, filter, rlock, op, reqs, before, rv, ap, call, pool>>

\* a prerouting whose failed lookup is taken for a success (the variant C30
\* is checked against)
PreroutingFindAlwaysSaves(t) ==
    /\ pc[t] = "map_pre_find"
    /\ Acquirable(t)
    /\ \E ok \in Outcomes :
          LET id == FindRuleId(PrettifyNat(nat), loc[t].target_port,
                               loc[t].target_addr, loc[t].conn_port)
          IN  /\ Count(ok)
              /\ Goto(t, "map_save",
                      [loc[t] EXCEPT !.prerouting_id = IF ok THEN id ELSE 0])
    /\ UNCHANGED <<rows, nat, filter, rlock, op, reqs, before, rv, ap, call, pool>>

\* prerouting(): find_rule(target_port, target_addr, table='nat', conn_port)
PreroutingFind(t) ==
    /\ pc[t] = "map_pre_find"
    /\ Acquirable(t)
    /\ \E ok \in Outcomes :
          LET id == FindRuleId(PrettifyNat(nat), loc[t].target_port,
                               loc[t].target_addr, loc[t].conn_port)
          IN  /\ Count(ok)
              /\ IF ~ok
                 THEN Goto(t, "map_undo", [loc[t] EXCEPT !.doh = E_LIST_NAT])
                 ELSE IF FindRuleRaises(id)
                 THEN Goto(t, "map_undo", [loc[t] EXCEPT !.doh = E_PRE_LOST])
                 ELSE Goto(t, "map_save", [loc[t] EXCEPT !.prerouting_id = id])
    /\ UNCHANGED <<rows, nat, filter, rlock, op, reqs, before, rv, ap, call, pool>>

\* iptables -t <table> -D <chain> <rule_id> succeeds on an existing line
DeleteOk(table, rule_id, ok) == ok /\ rule_id \in 1..Len(table)

\* a handler that re-raises without deleting the forward rule (the variant
\* C11 is checked against)
MapPortNoUndo(t) ==
    /\ pc[t] = "map_undo"
    /\ Acquirable(t)
    /\ filter' = filter
    /\ fails' = fails
    /\ MapPortRaises(t, loc[t].doh)
    /\ UNCHANGED <<rows, nat, op, reqs, before, rv, ap, call, pool>>

\* map_port's handler: delete_rule(forward_id, table='filter'); raise doh.
\* A failing delete_rule raises from inside the handler, so its own error
\* is the one that leaves map_port.
MapPortUndo(t) ==
    /\ pc[t] = "map_undo"
    /\ Acquirable(t)
    /\ \E ok \in Outcomes :
          LET deleted == DeleteOk(filter, loc[t].forward_id, ok)
          IN  /\ Count(ok)
              /\ filter' = IF deleted THEN RemoveAt(filter, loc[t].forward_id) ELSE filter
              /\ MapPortRaises(t, IF deleted THEN loc[t].doh ELSE E_DEL_FILTER)
    /\ UNCHANGED <<rows, nat, op, reqs, before, rv, ap, call, pool>>

\* map_port's else branch: save_rules(); return forward_id, prerouting_id.
\* In post the view then returns conn_port; in remove_port_map the handler
\* of the failed delete_port returns its error with status 500.
MapPortSave(t) ==
    /\ pc[t] = "map_save"
    /\ Acquirable(t)
    /\ \E ok \in Outcomes :
          /\ Count(ok)
          /\ IF ~ok THEN MapPortRaises(t, E_SAVE)
             ELSE IF op[t] = "create"
             THEN /\ rlock' = Release(rlock)
                  /\ Respond(t, 200, "", loc[t].conn_port)
             ELSE /\ rlock' = Release(Release(rlock))
                  /\ Respond(t, 500, loc[t].doh, None)
    /\ UNCHANGED <<rows, nat, filter, op, reqs, before, rv, ap, call, pool>>

\* post's handler: db.delete_port(conn_port), then the 500 response; a
\* failing delete_port raises out of the handler and leaves the view
PostExcept(t) ==
    /\ pc[t] = "post_except"
    /\ \E ok \in Outcomes :
          /\ Count(ok)
          /\ IF ok
             THEN /\ rows' = DeleteRows(rows, loc[t].conn_port)
                  /\ Respond(t, 500, loc[t].doh, None)
             ELSE /\ rows' = rows
                  /\ Escape(t, E_DB_DELETE)
    /\ UNCHANGED <<nat, filter, rlock, op, reqs, before, rv, ap, call, pool>>

\* -------------------------------------------- PortMapView.delete (Destroy)
\* the request arrives and delete opens its connection: with Database() as db
StartDestroy(t) ==
    /\ Takes(t)
    /\ \E p \in Ports, ok \in Outcomes :
          /\ Count(ok)
          /\ op' = [op EXCEPT ![t] = "destroy"]
          /\ IF ok
             THEN /\ pc' = [pc EXCEPT ![t] = "port_info"]
                  /\ loc' = [loc EXCEPT ![t] = [NoLocals EXCEPT !.conn_port = p]]
                  /\ resp' = [resp EXCEPT ![t] = NoResp]
             ELSE Respond(t, 500, E_DB_CONNECT, None)
          /\ before' = IF before.on
                       THEN [before EXCEPT !.armed =
                               /\ ok /\ op[t] = "create" /\ pc[t] = "done"
                               /\ resp[t].status = 200 /\ resp[t].conn_port = p]
                       ELSE before
    /\ reqs' = reqs + 1
    /\ UNCHANGED <<rows, nat, filter, rlock, rv, ap, call, pool>>

\* target_port, target_addr = db.port_info(conn_port)
DeletePortInfo(t) ==
    /\ pc[t] = "port_info"
    /\ \E ok \in Outcomes :
          LET info == PortInfo(rows, loc[t].conn_port)
          IN  /\ Count(ok)
              /\ IF ok
                 THEN Goto(t, "fw_enter", [loc[t] EXCEPT !.target_port = info[1],
                                                         !.target_addr = info[2]])
                 ELSE Respond(t, 500, E_DB_SELECT, None)
    /\ UNCHANGED <<rows, nat, filter, rlock, op, reqs, before, rv, ap, call, pool>>

\* with current_app.firewall:
DeleteEnter(t) ==
    /\ pc[t] = "fw_enter"
    /\ Acquirable(t)
    /\ rlock' = Acquire(rlock, t)
    /\ Goto(t, "find_nat", loc[t])
    /\ UNCHANGED <<rows, nat, filter, op, fails, reqs, before, rv, ap, call, pool>>

\* an exception leaves the ``with current_app.firewall`` block of delete
\* and is caught at line 168
DeleteRaises(t, error) ==
    /\ rlock' = Release(rlock)
    /\ Respond(t, 500, error, None)

\* nat_id = find_rule(target_port, target_addr, table='nat', conn_port=conn_port)
DeleteFindNat(t) ==
    /\ pc[t] = "find_nat"
    /\ Acquirable(t)
    /\ \E ok \in Outcomes :
          LET id == FindRuleId(PrettifyNat(nat), loc[t].target_port,
                               loc[t].target_addr, loc[t].conn_port)
          IN  /\ Count(ok)
              /\ IF ~ok THEN DeleteRaises(t, E_LIST_NAT)
                 ELSE IF FindRuleRaises(id) THEN DeleteRaises(t, E_NOT_FOUND)
                 ELSE /\ Goto(t, "find_filter", [loc[t] EXCEPT !.nat_id = id])
                      /\ UNCHANGED rlock
    /\ UNCHANGED <<rows, nat, filter, op, reqs, before, rv, ap, call, pool>>

\* filter_id = find_rule(target_port, target_addr, table='filter'), then
\* records_valid.  With a record error remove_port_map is skipped and the
\* else branch at line 173 reads ``error``, which was never bound:
\* UnboundLocalError leaves the view.
DeleteFindFilter(t) ==
    /\ pc[t] = "find_filter"
    /\ Acquirable(t)
    /\ \E ok \in Outcomes :
          LET id == FindRuleId(PrettifyFilter(filter), loc[t].target_port,
                               loc[t].target_addr, None)
              valid == RecordsValid(loc[t].nat_id, id, loc[t].target_port,
                                    loc[t].target_addr)
          IN  /\ Count(ok)
              /\ IF ~ok THEN DeleteRaises(t, E_LIST_FILTER)
                 ELSE IF FindRuleRaises(id) THEN DeleteRaises(t, E_NOT_FOUND)
                 ELSE IF valid[1] = ""
                 THEN /\ Goto(t, "rm_del_nat", [loc[t] EXCEPT !.filter_id = id])
                      /\ UNCHANGED rlock
                 ELSE /\ rlock' = Release(rlock)
                      /\ Escape(t, E_UNBOUND)
    /\ UNCHANGED <<rows, nat, filter, op, reqs, before, rv, ap, call, pool>>

\* remove_port_map: delete_rule(nat_id, table='nat'), outside any try
RemoveDeleteNat(t) ==
    /\ pc[t] = "rm_del_nat"
    /\ Acquirable(t)
    /\ \E ok \in Outcomes :
          /\ Count(ok)
          /\ IF DeleteOk(nat, loc[t].nat_id, ok)
             THEN /\ nat' = RemoveAt(nat, loc[t].nat_id)
                  /\ Goto(t, "rm_del_filter", loc[t])
                  /\ UNCHANGED rlock
             ELSE /\ nat' = nat
                  /\ DeleteRaises(t, E_DEL_NAT)
    /\ UNCHANGED <<rows, filter, op, reqs, before, rv, ap, call, pool>>

\* a handler that reports the failed delete without calling forward() (the
\* variant C14 is checked against)
RemoveDeleteFilterNoForward(t) ==
    /\ pc[t] = "rm_del_filter"
    /\ Acquirable(t)
    /\ \E ok \in Outcomes :
          /\ Count(ok)
          /\ IF DeleteOk(filter, loc[t].filter_id, ok)
             THEN /\ filter' = RemoveAt(filter, loc[t].filter_id)
                  /\ Goto(t, "rm_del_record", loc[t])
             ELSE /\ filter' = filter
                  /\ Goto(t, "rm_save", [loc[t] EXCEPT !.doh = E_DEL_FILTER])
    /\ UNCHANGED <<rows, nat, rlock, op, reqs, before, rv, ap, call, pool>>

\* remove_port_map: delete_rule(filter_id, table='filter'); on failure the
\* handler goes on to forward() and save_rules()
RemoveDeleteFilter(t) ==
    /\ pc[t] = "rm_del_filter"
    /\ Acquirable(t)
    /\ \E ok \in Outcomes :
          /\ Count(ok)
          /\ IF DeleteOk(filter, loc[t].filter_id, ok)
             THEN /\ filter' = RemoveAt(filter, loc[t].filter_id)
                  /\ Goto(t, "rm_del_record", loc[t])
             ELSE /\ filter' = filter
                  /\ Goto(t, "rm_fwd_append", [loc[t] EXCEPT !.doh = E_DEL_FILTER])
    /\ UNCHANGED <<rows, nat, rlock, op, reqs, before, rv, ap, call, pool>>

\* remove_port_map's handler: save_rules(), then return error, 500
RemoveSave(t) ==
    /\ pc[t] = "rm_save"
    /\ Acquirable(t)
    /\ \E ok \in Outcomes :
          /\ Count(ok)
          /\ rlock' = Release(rlock)
          /\ Respond(t, 500, IF ok THEN loc[t].doh ELSE E_SAVE, None)
    /\ UNCHANGED <<rows, nat, filter, op, reqs, before, rv, ap, call, pool>>

\* remove_port_map: db.delete_port(conn_port); on failure the handler
\* calls map_port(conn_port, target_port, target_addr)
RemoveDeleteRecord(t) ==
    /\ pc[t] = "rm_del_record"
    /\ \E ok \in Outcomes :
          /\ Count(ok)
          /\ IF ok
             THEN /\ rows' = DeleteRows(rows, loc[t].conn_port)
                  /\ rlock' = Release(rlock)
                  /\ Respond(t, 200, NoneStr, None)
             ELSE /\ rows' = rows
                  /\ rlock' = rlock
                  /\ Goto(t, "map_enter", [loc[t] EXCEPT !.doh = E_DB_DELETE])
    /\ UNCHANGED <<nat, filter, op, reqs, before, rv, ap, call, pool>>

\* ----------------------------------------------------------- the machine
Step(t) ==
    \/ StartCreate(t)
    \/ AddPort(t)
    \/ MapPortEnter(t)
    \/ ForwardAppend(t)
    \/ ForwardFind(t)
    \/ PreroutingAppend(t)
    \/ PreroutingFind(t)
    \/ MapPortUndo(t)
    \/ MapPortSave(t)
    \/ PostExcept(t)
    \/ StartDestroy(t)
    \/ DeletePortInfo(t)
    \/ DeleteEnter(t)
    \/ DeleteFindNat(t)
    \/ DeleteFindFilter(t)
    \/ RemoveDeleteNat(t)
    \/ RemoveDeleteFilter(t)
    \/ RemoveSave(t)
    \/ RemoveDeleteRecord(t)

Next == \E t \in Threads : Step(t)

Spec == Init /\ [][Next]_vars

TypeOK ==
    /\ \A r \in rows : r.conn_port \in Ports
    /\ rlock.owner \in Threads \cup {0}
    /\ fails \in 0..FailBound
    /\ reqs \in 0..ReqBound


\* ------------------------------------------ one request thread, recorded
\* The same handlers run by a single thread, one request after the other,
\* with the stores recorded at the start of every Create.
InitSeq ==
    /\ InitProgram
    /\ before = [NoHistory EXCEPT !.on = TRUE]
    /\ pool = NoPool
    /\ rv = NoCall
    /\ ap = NoAdd
    /\ call = NoMethod

NextSeq == Step(1)

SpecSeq == InitSeq /\ [][NextSeq]_vars

\* ------------------------------- the health check and standalone calls
\* HealthView.get: the request arrives (the view builds a FireWall of its own)
StartHealth(t) ==
    /\ Takes(t)
    /\ op' = [op EXCEPT ![t] = "health"]
    /\ pc' = [pc EXCEPT ![t] = "health_db"]
    /\ loc' = [loc EXCEPT ![t] = NoLocals]
    /\ resp' = [resp EXCEPT ![t] = NoResp]
    /\ reqs' = reqs + 1
    /\ UNCHANGED <<rows, nat, filter, rlock, fails, before, rv, ap, call, pool>>

\* with Database() as db: db.execute("select * from ipam;")
HealthDb(t) ==
    /\ pc[t] = "health_db"
    /\ \E ok \in Outcomes :
          /\ Count(ok)
          /\ IF ok THEN Goto(t, "health_nat", loc[t])
             ELSE \E e \in {E_DB_CONNECT, E_DB_SELECT} : Respond(t, 500, e, None)
    /\ UNCHANGED <<rows, nat, filter, rlock, op, reqs, before, rv, ap, call, pool>>

\* fwall.show(table='nat', format='raw'): the guard taken is the RLock of
\* the view's own FireWall, which no other thread ever holds
HealthShowNat(t) ==
    /\ pc[t] = "health_nat"
    /\ \E ok \in Outcomes :
          /\ Count(ok)
          /\ IF ok THEN Goto(t, "health_filter", loc[t])
             ELSE Respond(t, 500, E_LIST_NAT, None)
    /\ UNCHANGED <<rows, nat, filter, rlock, op, reqs, before, rv, ap, call, pool>>

\* fwall.show(table='filter', format='raw')
HealthShowFilter(t) ==
    /\ pc[t] = "health_filter"
    /\ \E ok \in Outcomes :
          /\ Count(ok)
          /\ IF ok THEN Respond(t, 200, "", None)
             ELSE Respond(t, 500, E_LIST_FILTER, None)
    /\ UNCHANGED <<rows, nat, filter, rlock, op, reqs, before, rv, ap, call, pool>>

\* app.firewall.forward(target_port, target_addr) called outside map_port
\* and outside any ``with`` block
StartForward(t) ==
    /\ Takes(t)
    /\ \E a \in TargetAddrs, p \in TargetPorts :
          loc' = [loc EXCEPT ![t] = [NoLocals EXCEPT !.target_addr = a,
                                                     !.target_port = p]]
    /\ op' = [op EXCEPT ![t] = "forward"]
    /\ pc' = [pc EXCEPT ![t] = "sa_fwd_append"]
    /\ resp' = [resp EXCEPT ![t] = NoResp]
    /\ reqs' = reqs + 1
    /\ UNCHANGED <<rows, nat, filter, rlock, fails, before, rv, ap, call, pool>>

\* forward(): run_cmd('iptables -A FORWARD ...'), no guard is taken
StandaloneForwardAppend(t) ==
    /\ pc[t] = "sa_fwd_append"
    /\ \E ok \in Outcomes :
          /\ Count(ok)
          /\ IF ok
             THEN /\ filter' = Append(filter, FilterRule(loc[t].target_addr,
                                                         loc[t].target_port))
                  /\ Goto(t, "sa_fwd_find", loc[t])
             ELSE /\ filter' = filter
                  /\ Escape(t, E_FWD_APPEND)
    /\ UNCHANGED <<rows, nat, rlock, op, reqs, before, rv, ap, call, pool>>

\* forward(): find_rule(...) -> show(): ``with self`` takes the guard, or
\* waits for it
StandaloneForwardEnter(t) ==
    /\ pc[t] = "sa_fwd_find"
    /\ Acquirable(t)
    /\ rlock' = Acquire(rlock, t)
    /\ Goto(t, "sa_fwd_list", loc[t])
    /\ UNCHANGED <<rows, nat, filter, op, fails, reqs, before, rv, ap, call, pool>>

\* forward(): show() lists the chain inside the guard and releases it;
\* find_rule's loop and forward's check of the id follow
StandaloneForwardFind(t) ==
    /\ pc[t] = "sa_fwd_list"
    /\ rlock' = Release(rlock)
    /\ \E ok \in Outcomes :
          LET id == FindRuleId(PrettifyFilter(filter), loc[t].target_port,
                               loc[t].target_addr, None)
          IN  /\ Count(ok)
              /\ IF ~ok THEN Escape(t, E_LIST_FILTER)
                 ELSE IF FindRuleRaises(id) THEN Escape(t, E_FWD_LOST)
                 ELSE Respond(t, 200, "", None)
    /\ UNCHANGED <<rows, nat, filter, op, reqs, before, rv, ap, call, pool>>

\* app.firewall.prerouting(conn_port, target_port, target_addr) called
\* outside map_port and outside any ``with`` block
StartPrerouting(t) ==
    /\ Takes(t)
    /\ \E c \in Ports, a \in TargetAddrs, p \in TargetPorts :
          loc' = [loc EXCEPT ![t] = [NoLocals EXCEPT !.conn_port = c,
                                                     !.target_addr = a,
                                                     !.target_port = p]]
    /\ op' = [op EXCEPT ![t] = "prerouting"]
    /\ pc' = [pc EXCEPT ![t] = "sa_pre_append"]
    /\ resp' = [resp EXCEPT ![t] = NoResp]
    /\ reqs' = reqs + 1
    /\ UNCHANGED <<rows, nat, filter, rlock, fails, before, rv, ap, call, pool>>

\* prerouting(): run_cmd('iptables -A PREROUTING -t nat ...'), no guard
StandalonePreroutingAppend(t) ==
    /\ pc[t] = "sa_pre_append"
    /\ \E ok \in Outcomes :
          /\ Count(ok)
          /\ IF ok
             THEN /\ nat' = Append(nat, NatRule(loc[t].conn_port,
                                                loc[t].target_addr,
                                                loc[t].target_port))
                  /\ Goto(t, "sa_pre_find", loc[t])
             ELSE /\ nat' = nat
                  /\ Escape(t, E_PRE_APPEND)
    /\ UNCHANGED <<rows, filter, rlock, op, reqs, before, rv, ap, call, pool>>

\* prerouting(): find_rule(..., table='nat', conn_port=conn_port) ->
\* show(): ``with self`` takes the guard, or waits for it
StandalonePreroutingEnter(t) ==
    /\ pc[t] = "sa_pre_find"
    /\ Acquirable(t)
    /\ rlock' = Acquire(rlock, t)
    /\ Goto(t, "sa_pre_list", loc[t])
    /\ UNCHANGED <<rows, nat, filter, op, fails, reqs, before, rv, ap, call, pool>>

\* prerouting(): show() lists the chain inside the guard and releases it;
\* find_rule's loop and prerouting's check of the id follow
StandalonePreroutingFind(t) ==
    /\ pc[t] = "sa_pre_list"
    /\ rlock' = Release(rlock)
    /\ \E ok \in Outcomes :
          LET id == FindRuleId(PrettifyNat(nat), loc[t].target_port,
                               loc[t].target_addr, loc[t].conn_port)
          IN  /\ Count(ok)
              /\ IF ~ok THEN Escape(t, E_LIST_NAT)
                 ELSE IF FindRuleRaises(id) THEN Escape(t, E_PRE_LOST)
                 ELSE Respond(t, 200, "", loc[t].conn_port)
    /\ UNCHANGED <<rows, nat, filter, op, reqs, before, rv, ap, call, pool>>

Health(t) ==
    \/ StartHealth(t)
    \/ HealthDb(t)
    \/ HealthShowNat(t)
    \/ HealthShowFilter(t)

Standalone(t) ==
    \/ StartForward(t)
    \/ StandaloneForwardAppend(t)
    \/ StandaloneForwardEnter(t)
    \/ StandaloneForwardFind(t)
    \/ StartPrerouting(t)
    \/ StandalonePreroutingAppend(t)
    \/ StandalonePreroutingEnter(t)
    \/ StandalonePreroutingFind(t)

\* the request threads serve Create, Destroy and the health check, and call
\* forward and prerouting on the application's FireWall
NextAll == \E t \in Threads : Step(t) \/ Health(t) \/ Standalone(t)

SpecAll == Init /\ [][NextAll]_vars

\* --------------------------------------------- records_valid on its own
RvIds == {None, 0, 3, 5}
RvPorts == {None, 0, 22}
RvAddrs == {NoneStr, "", "2.3.4.5"}

InitRV ==
    /\ InitProgram
    /\ before = NoHistory
    /\ pool = NoPool
    /\ \E n \in RvIds, f \in RvIds, p \in RvPorts, a \in RvAddrs :
          rv = [args |-> <<n, f, p, a>>, out |-> <<>>]
    /\ ap = NoAdd
    /\ call = NoMethod

CallRecordsValid ==
    /\ rv.out = <<>>
    /\ rv' = [rv EXCEPT !.out = RecordsValid(rv.args[1], rv.args[2],
                                             rv.args[3], rv.args[4])]
    /\ UNCHANGED <<rows, nat, filter, rlock, pc, op, loc, resp, fails, reqs, before, ap, call, pool>>

NextRV == CallRecordsValid

SpecRV == InitRV /\ [][NextRV]_vars

\* -------------------------------------------------- add_port on its own
\* tables of the ipam store: at most one row for each conn_port
AddTables ==
    {t \in SUBSET {Row(p, a, 22, "myBox", "OneFS") : p \in Ports, a \in TargetAddrs} :
        \A r1 \in t, r2 \in t : r1.conn_port = r2.conn_port => r1 = r2}

InitAdd ==
    /\ nat = <<>>
    /\ filter = DefaultFilter
    /\ rlock = [owner |-> 0, count |-> 0]
    /\ pc = [t \in Threads |-> "idle"]
    /\ op = [t \in Threads |-> "none"]
    /\ loc = [t \in Threads |-> NoLocals]
    /\ resp = [t \in Threads |-> NoResp]
    /\ fails = 0
    /\ reqs = 0
    /\ before = NoHistory
    /\ pool = NoPool
    /\ rv = NoCall
    /\ call = NoMethod
    /\ rows \in AddTables
    /\ \E a \in TargetAddrs, p \in TargetPorts, n \in TargetNames,
          c \in TargetComponents :
          ap = [NoAdd EXCEPT !.args = <<a, p, n, c>>, !.table = rows,
                             !.out = "running"]

\* one pass of add_port's loop: a port is drawn and the INSERT executed
AddPortPass ==
    /\ ap.out = "running"
    /\ \E p \in Ports, ok \in BOOLEAN :
          LET pgcode == InsertPgcode(rows, p, ok)
              step == AddPortStep(pgcode, ap.tries)
          IN  /\ rows' = IF pgcode = "00000"
                         THEN rows \cup {Row(p, ap.args[1], ap.args[2],
                                             ap.args[3], ap.args[4])}
                         ELSE rows
              /\ ap' = [ap EXCEPT
                          !.tries = IF step = "continue" THEN @ + 1 ELSE @,
                          !.codes = Append(@, pgcode),
                          !.ports = Append(@, p),
                          !.out = CASE step = "return" -> "return"
                                    [] step = "continue" -> "running"
                                    [] step = "exhausted" -> "RuntimeError"
                                    [] OTHER -> "DatabaseError",
                          !.value = IF step = "return" THEN p ELSE None,
                          !.error = CASE step = "exhausted" -> E_MAX_TRIES
                                      [] step = "raise" -> E_DB_INSERT
                                      [] OTHER -> "",
                          !.pgcode = IF step = "raise" THEN pgcode ELSE ""]
    /\ UNCHANGED <<nat, filter, rlock, pc, op, loc, resp, fails, reqs, before, rv, call, pool>>

NextAdd == AddPortPass

\* the loop runs on until add_port returns or raises
SpecAdd == InitAdd /\ [][NextAdd]_vars /\ WF_vars(NextAdd)


\* ------------------------------------- the Database methods on their own
\* what the ipam table may hold: machines, components and probe results
StoredNames == {"myBox", "otherBox"}
StoredComponents == {"OneFS", "ESRS"}
StoredPorts == {22, 443}
Routables == {"NULL", "true", "false"}

StoredRows ==
    {[Row(p, a, tp, n, c) EXCEPT !.routable = rt] :
        p \in Ports, a \in TargetAddrs, tp \in StoredPorts, n \in StoredNames,
        c \in StoredComponents, rt \in Routables}

\* tables of the ipam store: at most one row for each conn_port
StoredTables ==
    {{}} \cup {{r} : r \in StoredRows}
         \cup {{r1, r2} : r1 \in {r \in StoredRows : r.conn_port = VLAB_PORT_MIN},
                          r2 \in {r \in StoredRows : r.conn_port # VLAB_PORT_MIN}}

\* ``column LIKE (%s)``: the pattern '%' matches every value, a pattern
\* without wildcards matches the equal value only
Like(value, pattern) == pattern = "%" \/ value = pattern

\* a WHERE clause that joins its conditions with OR (the variant C22 is
\* checked against)
SelectPortAny(table, name, addr, component, conn_port, target_port) ==
    {r \in table :
        \/ ~(TruthyStr(name) \/ TruthyStr(addr) \/ TruthyStr(component)
             \/ TruthyInt(conn_port) \/ TruthyInt(target_port))
        \/ (TruthyStr(name) /\ Like(r.target_name, name))
        \/ (TruthyStr(addr) /\ Like(r.target_addr, addr))
        \/ (TruthyStr(component) /\ Like(r.target_component, component))
        \/ (TruthyInt(conn_port) /\ r.conn_port = conn_port)
        \/ (TruthyInt(target_port) /\ r.target_port = target_port)}

\* lookup_port's query: one clause for every truthy argument, joined by AND
SelectPort(table, name, addr, component, conn_port, target_port) ==
    {r \in table :
        /\ TruthyStr(name) => Like(r.target_name, name)
        /\ TruthyStr(addr) => Like(r.target_addr, addr)
        /\ TruthyStr(component) => Like(r.target_component, component)
        /\ TruthyInt(conn_port) => r.conn_port = conn_port
        /\ TruthyInt(target_port) => r.target_port = target_port}

\* lookup_port's answer: the fetched rows keyed by conn_port
LookupPort(data) ==
    [p \in {r.conn_port : r \in data} |->
        LET r == CHOOSE x \in data : x.conn_port = p
        IN  [name |-> r.target_name, target_addr |-> r.target_addr,
             target_port |-> r.target_port, component |-> r.target_component]]

\* lookup_addr's query: SELECT DISTINCT over the four columns, filtered by
\* the first truthy argument of addr, name, component
SelectAddr(table, name, addr, component) ==
    LET hit == IF TruthyStr(addr)
                 THEN {r \in table : Like(r.target_addr, addr)}
               ELSE IF TruthyStr(name)
                 THEN {r \in table : Like(r.target_name, name)}
               ELSE IF TruthyStr(component)
                 THEN {r \in table : Like(r.target_component, component)}
               ELSE table
    IN  {<<r.target_name, r.target_addr, r.target_component, r.routable>> :
            r \in hit}

\* the orders in which the cursor may hand out a result set
Orderings(S) ==
    {q \in [1..Cardinality(S) -> S] :
        \A i \in DOMAIN q, j \in DOMAIN q : q[i] = q[j] => i = j}

\* lookup_addr's loop over the fetched tuples, in the order fetched
LookupAddr(data) ==
    [n \in {data[i][1] : i \in DOMAIN data} |->
        LET mine == SelectSeq(data, LAMBDA d : d[1] = n)
        IN  [component |-> mine[Len(mine)][3],
             routable |-> mine[Len(mine)][4],
             addr |-> [i \in 1..Len(mine) |-> mine[i][2]]]]

\* the arguments the methods are called with
FilterNames == {NoneStr, "myBox", "%"}
FilterAddrs == {NoneStr, "", "10.0.0.1"}
FilterComponents == {NoneStr, "OneFS"}
FilterConnPorts == {None, 0, VLAB_PORT_MIN}
FilterTargetPorts == {None, 22}

InitDb ==
    /\ nat = <<>>
    /\ filter = DefaultFilter
    /\ rlock = [owner |-> 0, count |-> 0]
    /\ pc = [t \in Threads |-> "idle"]
    /\ op = [t \in Threads |-> "none"]
    /\ loc = [t \in Threads |-> NoLocals]
    /\ resp = [t \in Threads |-> NoResp]
    /\ fails = 0
    /\ reqs = 0
    /\ before = NoHistory
    /\ pool = NoPool
    /\ rv = NoCall
    /\ ap = NoAdd
    /\ rows \in StoredTables
    /\ \/ \E p \in Ports :
             call = [NoMethod EXCEPT !.fn = "delete_port", !.args = <<p>>,
                                     !.table = rows]
       \/ \E n \in FilterNames, a \in FilterAddrs, c \in FilterComponents,
             p \in FilterConnPorts, tp \in FilterTargetPorts :
             call = [NoMethod EXCEPT !.fn = "lookup_port",
                                     !.args = <<n, a, c, p, tp>>, !.table = rows]
       \/ \E n \in FilterNames, a \in FilterAddrs, c \in FilterComponents :
             call = [NoMethod EXCEPT !.fn = "lookup_addr",
                                     !.args = <<n, a, c>>, !.table = rows]

\* delete_port, called up to MaxCalls times with the same conn_port
DeletePortCall ==
    /\ call.fn = "delete_port"
    /\ Len(call.hist) < MaxCalls
    /\ \E ok \in BOOLEAN :
          /\ rows' = IF ok THEN DeleteRows(rows, call.args[1]) ELSE rows
          /\ call' = [call EXCEPT
                        !.hist = Append(@, [ok |-> ok, rows |-> rows']),
                        !.out = IF ok THEN "return" ELSE "DatabaseError"]
    /\ UNCHANGED <<nat, filter, rlock, pc, op, loc, resp, fails, reqs, before, rv, ap, pool>>

LookupPortCall ==
    /\ call.fn = "lookup_port"
    /\ call.out = "none"
    /\ \E ok \in BOOLEAN :
          call' = [call EXCEPT
                     !.out = IF ok THEN "return" ELSE "DatabaseError",
                     !.value = IF ok
                               THEN LookupPort(SelectPort(rows, call.args[1],
                                        call.args[2], call.args[3],
                                        call.args[4], call.args[5]))
                               ELSE <<>>]
    /\ UNCHANGED <<rows, nat, filter, rlock, pc, op, loc, resp, fails, reqs, before, rv, ap, pool>>

LookupAddrCall ==
    /\ call.fn = "lookup_addr"
    /\ call.out = "none"
    /\ \/ \E data \in Orderings(SelectAddr(rows, call.args[1], call.args[2],
                                           call.args[3])) :
             call' = [call EXCEPT !.out = "return", !.value = LookupAddr(data),
                                  !.hist = data]
       \/ call' = [call EXCEPT !.out = "DatabaseError"]
    /\ UNCHANGED <<rows, nat, filter, rlock, pc, op, loc, resp, fails, reqs, before, rv, ap, pool>>

NextDb == DeletePortCall \/ LookupPortCall \/ LookupAddrCall

SpecDb == InitDb /\ [][NextDb]_vars

\* ------------------------------------- the FireWall methods on their own
\* the tables a method may be asked for; 'mangle' is not supported
TableNames == {"nat", "filter", "mangle"}
Formats == {"parsed", "raw"}

\* a wrapper that takes every table but 'nat' for the filter table (the
\* variant C27 is checked against)
ChainOfForwardByDefault(table) ==
    IF table = "nat" THEN "PREROUTING" ELSE "FORWARD"

\* the chain of a table, '' for a table that makes the method raise
ChainOf(table) ==
    CASE table = "nat" -> "PREROUTING"
      [] table = "filter" -> "FORWARD"
      [] OTHER -> ""

SeqsUpTo(S, n) == UNION {[1..k -> S] : k \in 0..n}

\* rule tables holding up to MaxRules port-map rules
NatTables ==
    SeqsUpTo({NatRule(p, a, tp) : p \in Ports, a \in TargetAddrs,
                                  tp \in TargetPorts}, MaxRules)
FilterTables ==
    {DefaultFilter \o q :
        q \in SeqsUpTo({FilterRule(a, tp) : a \in TargetAddrs,
                                            tp \in TargetPorts}, MaxRules)}

\* the thread that calls the method: the last one of the pool
Caller == NumThreads

InitFw ==
    /\ rows = {}
    /\ rlock = [owner |-> 0, count |-> 0]
    /\ pc = [t \in Threads |-> "idle"]
    /\ op = [t \in Threads |-> "none"]
    /\ loc = [t \in Threads |-> NoLocals]
    /\ resp = [t \in Threads |-> NoResp]
    /\ fails = 0
    /\ reqs = 0
    /\ before = NoHistory
    /\ pool = NoPool
    /\ rv = NoCall
    /\ ap = NoAdd
    /\ nat \in NatTables
    /\ filter \in FilterTables
    /\ \/ \E tp \in TargetPorts, ta \in TargetAddrs, tb \in TableNames,
             cp \in Ports \cup {None} :
             call = [NoMethod EXCEPT !.fn = "find_rule",
                                     !.args = <<tp, ta, tb, cp>>,
                                     !.table = <<nat, filter>>]
       \/ \E id \in 1..(MaxRules + 2), tb \in TableNames :
             call = [NoMethod EXCEPT !.fn = "delete_rule", !.args = <<id, tb>>,
                                     !.table = <<nat, filter>>]
       \/ \E tb \in TableNames, fm \in Formats :
             call = [NoMethod EXCEPT !.fn = "show", !.args = <<tb, fm>>,
                                     !.table = <<nat, filter>>]

\* the method is entered: find_rule checks its arguments first, then the
\* ``with self`` of show or delete_rule takes the guard
MethodEnter ==
    /\ call.fn \in {"find_rule", "delete_rule", "show"}
    /\ call.out = "none"
    /\ IF call.fn = "find_rule" /\ call.args[3] = "nat" /\ call.args[4] = None
       THEN /\ call' = [call EXCEPT !.out = "ValueError"]
            /\ UNCHANGED rlock
       ELSE /\ Acquirable(Caller)
            /\ rlock' = Acquire(rlock, Caller)
            /\ call' = [call EXCEPT !.out = "locked"]
    /\ UNCHANGED <<rows, nat, filter, pc, op, loc, resp, fails, reqs, before, rv, ap, pool>>

\* show() inside the guard: the listing command and its parsed or raw output
Listing(table, format) ==
    IF format = "parsed"
    THEN IF table = "nat" THEN PrettifyNat(nat) ELSE PrettifyFilter(filter)
    ELSE IF table = "nat" THEN nat ELSE filter

ShowBody ==
    /\ call.fn = "show"
    /\ call.out = "locked"
    /\ rlock' = Release(rlock)
    /\ IF ChainOf(call.args[1]) = ""
       THEN call' = [call EXCEPT !.out = "ValueError"]
       ELSE \E ok \in BOOLEAN :
               call' = [call EXCEPT
                          !.hist = Append(@, <<"-L", ChainOf(call.args[1])>>),
                          !.out = IF ok THEN "return" ELSE "CliError",
                          !.value = IF ok THEN Listing(call.args[1], call.args[2])
                                    ELSE <<>>]
    /\ UNCHANGED <<rows, nat, filter, pc, op, loc, resp, fails, reqs, before, rv, ap, pool>>

\* find_rule after its argument check: show(table), then the loop
FindRuleBody ==
    /\ call.fn = "find_rule"
    /\ call.out = "locked"
    /\ rlock' = Release(rlock)
    /\ IF ChainOf(call.args[3]) = ""
       THEN call' = [call EXCEPT !.out = "ValueError"]
       ELSE \E ok \in BOOLEAN :
               LET id == FindRuleId(Listing(call.args[3], "parsed"),
                                    call.args[1], call.args[2], call.args[4])
               IN  call' = [call EXCEPT
                              !.hist = Append(@, <<"-L", ChainOf(call.args[3])>>),
                              !.out = IF ~ok THEN "CliError"
                                      ELSE IF FindRuleRaises(id) THEN "RuntimeError"
                                      ELSE "return",
                              !.value = IF ok /\ ~FindRuleRaises(id) THEN id
                                        ELSE 0]
    /\ UNCHANGED <<rows, nat, filter, pc, op, loc, resp, fails, reqs, before, rv, ap, pool>>

\* delete_rule inside the guard
DeleteRuleBody ==
    /\ call.fn = "delete_rule"
    /\ call.out = "locked"
    /\ rlock' = Release(rlock)
    /\ IF ChainOf(call.args[2]) = ""
       THEN /\ call' = [call EXCEPT !.out = "ValueError"]
            /\ UNCHANGED <<nat, filter>>
       ELSE \E ok \in BOOLEAN :
               LET chain == ChainOf(call.args[2])
                   table == IF chain = "PREROUTING" THEN nat ELSE filter
                   done == DeleteOk(table, call.args[1], ok)
               IN  /\ nat' = IF done /\ chain = "PREROUTING"
                             THEN RemoveAt(nat, call.args[1]) ELSE nat
                   /\ filter' = IF done /\ chain = "FORWARD"
                                THEN RemoveAt(filter, call.args[1]) ELSE filter
                   /\ call' = [call EXCEPT
                                 !.hist = Append(@, <<"-D", chain>>),
                                 !.out = IF done THEN "return" ELSE "CliError"]
    /\ UNCHANGED <<rows, pc, op, loc, resp, fails, reqs, before, rv, ap, pool>>

NextFw == MethodEnter \/ ShowBody \/ FindRuleBody \/ DeleteRuleBody

SpecFw == InitFw /\ [][NextFw]_vars

\* ------------------------------------ the liveness prober and the reads
\* the outcomes of a probe, as update_record writes them into its statement
ProbeResults == {"true", "false"}

\* an UPDATE without its WHERE clause (the variant C33 is checked against)
UpdateRowsAll(table, owner, addr, routable) ==
    {[r EXCEPT !.routable = routable] : r \in table}

\* UPDATE ipam SET routable=... WHERE target_name LIKE (%s) and
\* target_addr LIKE (%s)
UpdateRows(table, owner, addr, routable) ==
    {IF Like(r.target_name, owner) /\ Like(r.target_addr, addr)
     THEN [r EXCEPT !.routable = routable] ELSE r : r \in table}

\* Worker.run: update_record(owner, addr, routable) for a task of the queue
UpdateRecord ==
    /\ \E owner \in TargetNames, addr \in TargetAddrs, rt \in ProbeResults,
          ok \in Outcomes :
          /\ Count(ok)
          /\ rows' = IF ok THEN UpdateRows(rows, owner, addr, rt) ELSE rows
          /\ call' = [NoMethod EXCEPT
                        !.fn = "update_record", !.args = <<owner, addr, rt>>,
                        !.out = IF ok THEN "return" ELSE "DatabaseError"]
    /\ UNCHANGED <<nat, filter, rlock, pc, op, loc, resp, reqs, before, rv, ap, pool>>

\* PortMapView.get and AddrView.get without query parameters: request.args
\* gives lookup_port(None, None, None, 0, 0) and lookup_addr(None, '', None).
\* When Database() or the SELECT fails PortMapView.get answers 500 with the
\* error and the exception leaves AddrView.get.
LookupView ==
    /\ \E ok \in Outcomes :
          /\ Count(ok)
          /\ \/ call' = [NoMethod EXCEPT
                           !.fn = "lookup_port",
                           !.args = <<NoneStr, NoneStr, NoneStr, 0, 0>>,
                           !.out = IF ok THEN "return" ELSE "DatabaseError",
                           !.value = IF ok
                                     THEN LookupPort(SelectPort(rows, NoneStr,
                                                NoneStr, NoneStr, 0, 0))
                                     ELSE <<>>]
             \/ \E data \in Orderings(SelectAddr(rows, NoneStr, "", NoneStr)) :
                   call' = [NoMethod EXCEPT
                              !.fn = "lookup_addr",
                              !.args = <<NoneStr, "", NoneStr>>,
                              !.out = IF ok THEN "return" ELSE "DatabaseError",
                              !.value = IF ok THEN LookupAddr(data) ELSE <<>>]
    /\ UNCHANGED <<rows, nat, filter, rlock, pc, op, loc, resp, reqs, before, rv, ap, pool>>

\* one request thread beside the prober's updates and the read views
NextProbe == Step(1) \/ UpdateRecord \/ LookupView

SpecProbe == Init /\ [][NextProbe]_vars

\* ------------------------------------------------------ fair scheduling
\* Every external command and SQL statement returns and every runnable
\* thread is scheduled: a thread that can take its next step does so.
SpecFair == Init /\ [][Next]_vars /\ \A t \in Threads : WF_vars(Step(t))

\* ------------------------------------- requests beside a live mapping
\* The gateway after one successful Create: the record of conn_port
\* VLAB_PORT_MIN and its two rules are in place when the requests arrive.
InitLive ==
    /\ rows = {Row(VLAB_PORT_MIN, "10.0.0.1", 22, "myBox", "OneFS")}
    /\ nat = <<NatRule(VLAB_PORT_MIN, "10.0.0.1", 22)>>
    /\ filter = DefaultFilter \o <<FilterRule("10.0.0.1", 22)>>
    /\ rlock = [owner |-> 0, count |-> 0]
    /\ pc = [t \in Threads |-> "idle"]
    /\ op = [t \in Threads |-> "none"]
    /\ loc = [t \in Threads |-> NoLocals]
    /\ resp = [t \in Threads |-> NoResp]
    /\ fails = 0
    /\ reqs = 0
    /\ before = NoHistory
    /\ pool = NoPool
    /\ rv = NoCall
    /\ ap = NoAdd
    /\ call = NoMethod

SpecLive == InitLive /\ [][Next]_vars

\* ------------------------------- requests beside calls of the FireWall
\* Thread 1 serves up to MaxGuardReqs requests beside a live mapping, with
\* up to MaxSeqFail commands or statements failing, so that a compensation
\* can fail too; thread Caller calls show, find_rule and delete_rule of
\* app.firewall on their own, also for a table that is not supported.
InitGuard ==
    /\ rows = {Row(VLAB_PORT_MIN, "10.0.0.1", 22, "myBox", "OneFS")}
    /\ nat = <<NatRule(VLAB_PORT_MIN, "10.0.0.1", 22)>>
    /\ filter = DefaultFilter \o <<FilterRule("10.0.0.1", 22)>>
    /\ rlock = [owner |-> 0, count |-> 0]
    /\ pc = [t \in Threads |-> "idle"]
    /\ op = [t \in Threads |-> "none"]
    /\ loc = [t \in Threads |-> NoLocals]
    /\ resp = [t \in Threads |-> NoResp]
    /\ fails = 0
    /\ reqs = 0
    /\ before = [NoHistory EXCEPT !.on = TRUE]
    /\ pool = NoPool
    /\ rv = NoCall
    /\ ap = NoAdd
    /\ call = NoMethod

\* the caller is inside a method
InMethod == call.fn # "none" /\ call.out \in {"none", "locked"}

\* the caller's next call, once the one before has returned or raised
MethodCall ==
    /\ ~InMethod
    /\ \/ \E tb \in TableNames, cp \in {None, VLAB_PORT_MIN} :
             call' = [NoMethod EXCEPT !.fn = "find_rule",
                                      !.args = <<22, "10.0.0.1", tb, cp>>]
       \/ \E tb \in TableNames :
             call' = [NoMethod EXCEPT !.fn = "delete_rule", !.args = <<3, tb>>]
       \/ \E tb \in TableNames :
             call' = [NoMethod EXCEPT !.fn = "show", !.args = <<tb, "parsed">>]
    /\ UNCHANGED <<rows, nat, filter, rlock, pc, op, loc, resp, fails, reqs, before, rv, ap, pool>>

CallerStep == MethodCall \/ MethodEnter \/ ShowBody \/ FindRuleBody \/ DeleteRuleBody

NextGuard == (Step(1) /\ reqs' <= MaxGuardReqs) \/ CallerStep

SpecGuard == InitGuard /\ [][NextGuard]_vars

\* ------------------------------------------- the prober's worker pool
\* worker.py is a process of its own: main starts the Worker threads
\* (make_workers) and runs do_work, the producer, in the main thread.  They
\* share queue.Queue(), which is unbounded: put never blocks.
Workers == 1..NumWorkers

\* SELECT DISTINCT target_name, target_addr FROM ipam
Tasks(table) == {<<r.target_name, r.target_addr>> : r \in table}

\* the ipam tables the prober finds: one record, two records of one address,
\* two records of two addresses
WorkTables ==
    {{Row(VLAB_PORT_MIN, "10.0.0.1", 22, "myBox", "OneFS")},
     {Row(VLAB_PORT_MIN, "10.0.0.1", 22, "myBox", "OneFS"),
      Row(VLAB_PORT_MAX, "10.0.0.1", 22, "myBox", "OneFS")},
     {Row(VLAB_PORT_MIN, "10.0.0.1", 22, "myBox", "OneFS"),
      Row(VLAB_PORT_MAX, "10.0.0.2", 22, "myBox", "OneFS")}}

\* main, when do_work is called: every Worker constructed with
\* keep_running = True and started, the queue empty
InitWork ==
    /\ rows \in WorkTables
    /\ nat = <<>>
    /\ filter = DefaultFilter
    /\ rlock = [owner |-> 0, count |-> 0]
    /\ pc = [t \in Threads |-> "idle"]
    /\ op = [t \in Threads |-> "none"]
    /\ loc = [t \in Threads |-> NoLocals]
    /\ resp = [t \in Threads |-> NoResp]
    /\ fails = 0
    /\ reqs = 0
    /\ before = NoHistory
    /\ rv = NoCall
    /\ ap = NoAdd
    /\ call = NoMethod
    /\ pool = [queue |-> <<>>,
               run |-> [w \in Workers |-> "while"],
               keep_running |-> [w \in Workers |-> TRUE],
               task |-> [w \in Workers |-> <<>>],
               routable |-> [w \in Workers |-> "none"],
               do_work |-> "select",
               records |-> <<>>,
               rounds |-> 1]

\* threading.Thread.is_alive(): run() has neither returned nor raised
IsAlive(w) == pool.run[w] \notin {"returned", "raised"}

\* ``while self.keep_running:``
WorkerWhile(w) ==
    /\ pool.run[w] = "while"
    /\ pool' = [pool EXCEPT !.run[w] = IF pool.keep_running[w] THEN "get"
                                       ELSE "returned"]
    /\ UNCHANGED <<rows, fails>>

\* a get that waits for a task however long (the variant C40 is checked
\* against)
GetWaitsForever(queue) == FALSE

\* work_queue.get(timeout=THREAD_POLL_TIMEOUT) raises queue.Empty when no
\* task arrived within the timeout
GetTimesOut(queue) == queue = <<>>

\* ``task = self.work_queue.get(timeout=THREAD_POLL_TIMEOUT)``, and the
\* ``except queue.Empty`` that loops back
WorkerGet(w) ==
    /\ pool.run[w] = "get"
    /\ IF pool.queue # <<>>
       THEN pool' = [pool EXCEPT !.queue = Tail(@),
                                 !.task[w] = Head(pool.queue),
                                 !.run[w] = "pingable"]
       ELSE /\ GetTimesOut(pool.queue)
            /\ pool' = [pool EXCEPT !.run[w] = "while"]
    /\ UNCHANGED <<rows, fails>>

\* pingable(addr): the ping command exits 0, or CliError is caught
Pingable(w) ==
    /\ pool.run[w] = "pingable"
    /\ \E rt \in ProbeResults :
          pool' = [pool EXCEPT !.routable[w] = rt, !.run[w] = "update_record"]
    /\ UNCHANGED <<rows, fails>>

\* update_record(owner, addr, routable); an exception of it reaches
\* ``except Exception``: keep_running = False and the thread ends
WorkerUpdate(w) ==
    /\ pool.run[w] = "update_record"
    /\ \E ok \in Outcomes :
          /\ Count(ok)
          /\ IF ok
             THEN /\ rows' = UpdateRows(rows, pool.task[w][1], pool.task[w][2],
                                        pool.routable[w])
                  /\ pool' = [pool EXCEPT !.run[w] = "while",
                                          !.task[w] = <<>>,
                                          !.routable[w] = "none"]
             ELSE /\ rows' = rows
                  /\ pool' = [pool EXCEPT !.run[w] = "raised",
                                          !.keep_running[w] = FALSE,
                                          !.task[w] = <<>>,
                                          !.routable[w] = "none"]

WorkerRun(w) ==
    /\ \/ WorkerWhile(w)
       \/ WorkerGet(w)
       \/ Pingable(w)
       \/ WorkerUpdate(w)
    /\ UNCHANGED <<nat, filter, rlock, pc, op, loc, resp, reqs, before, rv, ap, call>>

\* workers_ok(worker_threads)
WorkersOk == \A w \in Workers : IsAlive(w)

\* do_work: ``records = db.execute("SELECT DISTINCT ...")``; an exception of
\* the store leaves do_work
DoWorkSelect ==
    /\ pool.do_work = "select"
    /\ \E ok \in Outcomes :
          /\ Count(ok)
          /\ IF ok
             THEN \E records \in Orderings(Tasks(rows)) :
                     pool' = [pool EXCEPT
                                !.records = records,
                                !.do_work = IF records = <<>> THEN "workers_ok"
                                            ELSE "put"]
             ELSE pool' = [pool EXCEPT !.do_work = "raised"]

\* do_work: one ``work_queue.put(record)`` of the for loop
DoWorkPut ==
    /\ pool.do_work = "put"
    /\ pool' = [pool EXCEPT
                  !.queue = Append(@, Head(pool.records)),
                  !.records = Tail(@),
                  !.do_work = IF Tail(pool.records) = <<>> THEN "workers_ok"
                              ELSE "put"]
    /\ UNCHANGED fails

\* ``if not workers_ok(worker_threads):``
DoWorkCheck ==
    /\ pool.do_work = "workers_ok"
    /\ pool' = [pool EXCEPT !.do_work = IF WorkersOk THEN "sleep" ELSE "empty"]
    /\ UNCHANGED fails

\* time.sleep(interval_delta), and the loop goes round; the rounds are
\* counted up to MaxRounds
DoWorkSleep ==
    /\ pool.do_work = "sleep"
    /\ pool.rounds < MaxRounds
    /\ pool' = [pool EXCEPT !.do_work = "select", !.rounds = @ + 1]
    /\ UNCHANGED fails

\* drain_queue: ``while not work_queue.empty():``
DrainEmpty ==
    /\ pool.do_work = "empty"
    /\ pool' = [pool EXCEPT !.do_work = IF pool.queue = <<>> THEN "terminate"
                                        ELSE "get"]
    /\ UNCHANGED fails

\* drain_queue: ``work_queue.get()``, which waits until the queue has an item
DrainGet ==
    /\ pool.do_work = "get"
    /\ pool.queue # <<>>
    /\ pool' = [pool EXCEPT !.queue = Tail(@), !.do_work = "empty"]
    /\ UNCHANGED fails

\* terminate_workers: keep_running = False on every worker
TerminateWorkers ==
    /\ pool.do_work = "terminate"
    /\ pool' = [pool EXCEPT !.keep_running = [w \in Workers |-> FALSE],
                            !.do_work = "join"]
    /\ UNCHANGED fails

\* terminate_workers: join(timeout=THREAD_POLL_TIMEOUT * 2) of every worker
\* returns when the thread has ended or after the timeout
JoinWorkers ==
    /\ pool.do_work = "join"
    /\ pool' = [pool EXCEPT !.do_work = "returned"]
    /\ UNCHANGED fails

DoWork ==
    /\ \/ DoWorkSelect
       \/ DoWorkPut
       \/ DoWorkCheck
       \/ DoWorkSleep
       \/ DrainEmpty
       \/ DrainGet
       \/ TerminateWorkers
       \/ JoinWorkers
    /\ UNCHANGED <<rows, nat, filter, rlock, pc, op, loc, resp, reqs, before, rv, ap, call>>

NextWork == DoWork \/ \E w \in Workers : WorkerRun(w)

\* every thread of the process that can run is scheduled, and every command
\* and statement returns
SpecWork ==
    /\ InitWork
    /\ [][NextWork]_vars
    /\ WF_vars(DoWork)
    /\ \A w \in Workers : WF_vars(WorkerRun(w))

\* ------------------------------------------------- what the stores hold
HasRecord(rs, conn_port) == \E r \in rs : r.conn_port = conn_port
NatRulesOf(n, conn_port) == {i \in 1..Len(n) : n[i].conn_port = conn_port}
NatRulesFor(n, conn_port, target_addr, target_port) ==
    {i \in 1..Len(n) : n[i] = NatRule(conn_port, target_addr, target_port)}
FilterRulesFor(f, target_addr, target_port) ==
    {i \in 1..Len(f) : f[i] = FilterRule(target_addr, target_port)}
RecordsFor(rs, target_addr, target_port) ==
    {r \in rs : r.target_addr = target_addr /\ r.target_port = target_port}

\* thread t ends its request in this step with a Response
Completes(t, kind) == op[t] = kind /\ pc[t] # "done" /\ pc'[t] = "done"
\* thread t took this step
Took(t) == pc'[t] # pc[t] \/ loc'[t] # loc[t]

\* the record of conn_port and a nat and a filter rule of its target exist
AllThree(rs, n, f, conn_port, target_addr, target_port) ==
    /\ \E r \in rs : /\ r.conn_port = conn_port
                     /\ r.target_addr = target_addr
                     /\ r.target_port = target_port
    /\ NatRulesFor(n, conn_port, target_addr, target_port) # {}
    /\ FilterRulesFor(f, target_addr, target_port) # {}

\* no record and no nat rule of conn_port, and no filter rule of the target
\* beyond those of the live records of that target
NoneOfThree(rs, n, f, conn_port, target_addr, target_port) ==
    /\ ~HasRecord(rs, conn_port)
    /\ NatRulesOf(n, conn_port) = {}
    /\ Cardinality(FilterRulesFor(f, target_addr, target_port))
          <= Cardinality(RecordsFor(rs, target_addr, target_port))

\* a record with conn_port and the requested fields, exactly one nat rule of
\* conn_port, which maps to the target, and a filter rule of the target
Mapped(rs, n, f, conn_port, l) ==
    /\ Row(conn_port, l.target_addr, l.target_port, l.target_name,
           l.target_component) \in rs
    /\ Cardinality(NatRulesOf(n, conn_port)) = 1
    /\ Cardinality(NatRulesFor(n, conn_port, l.target_addr, l.target_port)) = 1
    /\ FilterRulesFor(f, l.target_addr, l.target_port) # {}

\* C1: when a Create request returns its response, either the record of its
\* connPort and both of its rules exist, or none of the three does.
C1_AllOrNothing ==
    [][\A t \in Threads :
          Completes(t, "create") =>
             \/ AllThree(rows', nat', filter', loc[t].conn_port,
                         loc[t].target_addr, loc[t].target_port)
             \/ NoneOfThree(rows', nat', filter', loc[t].conn_port,
                            loc[t].target_addr, loc[t].target_port)]_vars

\* C2: a Create that returns a connPort leaves a record with that connPort
\* and the requested fields, exactly one nat rule of that connPort to the
\* requested target, and a filter rule accepting the target.
C2_SuccessMeansMapped ==
    [][\A t \in Threads :
          (Completes(t, "create") /\ resp'[t].status = 200) =>
             Mapped(rows', nat', filter', resp'[t].conn_port, loc[t])]_vars

\* C2 restricted to runs in which no command or statement has failed
C2_WithoutFailures ==
    [][\A t \in Threads :
          (Completes(t, "create") /\ resp'[t].status = 200 /\ fails' = 0) =>
             Mapped(rows', nat', filter', resp'[t].conn_port, loc[t])]_vars


\* ------------------------------------------------------------ round trip
Occurs(table, x) == Cardinality({i \in 1..Len(table) : table[i] = x})
Range(table) == {table[i] : i \in 1..Len(table)}
\* two chains hold the same rules, each the same number of times
SameRules(t1, t2) ==
    \A x \in Range(t1) \cup Range(t2) : Occurs(t1, x) = Occurs(t2, x)

RoundTripDone ==
    /\ before.armed
    /\ op[1] = "destroy"
    /\ pc[1] \in {"done", "raised"}
    /\ fails = before.fails

\* C3: a Destroy of the connPort a successful Create returned, with no
\* failing step in either, reports no error and leaves the record store and
\* both chains with the content (the rows; the rules, counted) they had
\* before the Create.
C3_RoundTrip ==
    RoundTripDone =>
       /\ pc[1] = "done"
       /\ resp[1].status = 200
       /\ resp[1].error = NoneStr
       /\ rows = before.rows
       /\ SameRules(nat, before.nat)
       /\ SameRules(filter, before.filter)

\* a round trip made while another mapping was live
C3_Witness ==
    /\ RoundTripDone
    /\ resp[1].status = 200
    /\ before.rows # {}
    /\ Len(before.nat) > 0

\* ------------------------------------------------------------ consistency
Quiet == \A t \in Threads : pc[t] \in {"idle", "done", "raised"}

SourcesAgree ==
    /\ \A r \in rows :
          /\ Cardinality(NatRulesOf(nat, r.conn_port)) = 1
          /\ Cardinality(NatRulesFor(nat, r.conn_port, r.target_addr, r.target_port)) = 1
          /\ FilterRulesFor(filter, r.target_addr, r.target_port) # {}
    /\ \A i \in 1..Len(nat) :
          \E r \in rows : /\ r.conn_port = nat[i].conn_port
                          /\ r.target_addr = nat[i].target_addr
                          /\ r.target_port = nat[i].target_port
    /\ \A i \in 1..Len(filter) :
          filter[i] # DefaultRule =>
          Occurs(filter, filter[i])
             = Cardinality(RecordsFor(rows, filter[i].target_addr, filter[i].target_port))
    /\ \A r \in rows :
          Occurs(filter, FilterRule(r.target_addr, r.target_port))
             = Cardinality(RecordsFor(rows, r.target_addr, r.target_port))

\* C4: in a run without a failed command, whenever no request is in
\* progress every live record has exactly one nat rule (its connPort, its
\* target) and a filter rule, every nat rule belongs to a live record, and
\* each target has as many filter rules as live records.
C4_SourcesAgree == (fails = 0 /\ Quiet) => SourcesAgree

\* two Creates of the same target have both returned their connPort
C4_Witness ==
    /\ fails = 0
    /\ Quiet
    /\ \E r1 \in rows, r2 \in rows :
          /\ r1.conn_port # r2.conn_port
          /\ r1.target_addr = r2.target_addr
    /\ \A t \in Threads : op[t] = "create" /\ resp[t].status = 200

\* ------------------------------------------------------ mutual exclusion
\* thread t is between the first and the last rule-table command of a
\* MapPort or Destroy sequence
InSequence(t) ==
    \/ pc[t] \in {"map_fwd_append", "map_fwd_find", "map_pre_append",
                  "map_pre_find", "map_undo", "map_save"}
    \/ pc[t] \in {"find_nat", "find_filter", "rm_del_nat", "rm_del_filter",
                  "rm_fwd_append", "rm_fwd_find", "rm_save", "rm_del_record"}
    \/ pc[t] = "map_enter" /\ op[t] = "destroy"

\* C5: at most one thread is inside a MapPort or Destroy sequence, and it
\* is the one that holds the guard.
C5_MutualExclusion ==
    \A t \in Threads :
       InSequence(t) =>
          /\ rlock.owner = t
          /\ \A u \in Threads \ {t} : ~InSequence(u)

\* one thread is in the middle of a sequence while another waits to enter
C5_Witness ==
    \E t \in Threads, u \in Threads :
       /\ t # u
       /\ pc[t] \in {"map_pre_append", "rm_del_filter"}
       /\ pc[u] \in {"map_enter", "fw_enter"}
       /\ ~InSequence(u)

\* ------------------------------------------------------ connPort is unique
UniqueConnPort(rs) ==
    \A r1 \in rs, r2 \in rs : r1.conn_port = r2.conn_port => r1 = r2

\* C6: no two live records share a connPort; an insert of a taken port is
\* rejected and the writer tries again, and add_port returns a port only
\* when its own insert of that port was accepted, so a port returned by a
\* Create belonged to no live mapping.
C6_UniqueConnPort ==
    [][/\ UniqueConnPort(rows')
       /\ \A t \in Threads :
            /\ (pc[t] = "add_port" /\ pc'[t] = "map_enter") =>
                  /\ ~HasRecord(rows, loc'[t].conn_port)
                  /\ rows' = rows \cup {Row(loc'[t].conn_port, loc[t].target_addr,
                                            loc[t].target_port, loc[t].target_name,
                                            loc[t].target_component)}
            /\ (pc[t] = "add_port" /\ pc'[t] = "add_port" /\ Took(t)) =>
                  /\ rows' = rows
                  /\ loc'[t].tries = loc[t].tries + 1
                  /\ fails' = fails]_vars

\* a Create whose first insert was rejected got a port on its second try
C6_Witness ==
    \E t \in Threads :
       /\ pc[t] = "map_enter"
       /\ op[t] = "create"
       /\ loc[t].tries = 1
       /\ Cardinality(rows) = 2

\* ------------------------------------------------ Destroy checks, then acts
\* thread t, handling a Destroy, changes a store in this step
DestroyChanges(t) ==
    /\ op[t] = "destroy"
    /\ Took(t)
    /\ <<rows, nat, filter>>' # <<rows, nat, filter>>

\* chain c2 is chain c1 less one occurrence of rule x
OneLess(c1, c2, x) ==
    /\ Len(c2) = Len(c1) - 1
    /\ Occurs(c2, x) = Occurs(c1, x) - 1
    /\ \A y \in Range(c1) \ {x} : Occurs(c2, y) = Occurs(c1, y)

\* C7: a Destroy changes the record store or a chain only after its record
\* lookup and both rule lookups returned a value and records_valid reported
\* no error; the rules it deletes are the nat rule of its connPort and a
\* filter rule of the record's target, and the record it deletes is the one
\* of its connPort.  A Destroy that did not get that far changes nothing.
C7_ChecksBeforeActing ==
    [][\A t \in Threads :
          DestroyChanges(t) =>
             LET l == loc[t] IN
             /\ TruthyInt(l.target_port) /\ TruthyStr(l.target_addr)
             /\ TruthyInt(l.nat_id) /\ TruthyInt(l.filter_id)
             /\ RecordsValid(l.nat_id, l.filter_id, l.target_port, l.target_addr)
                   = <<"", 200>>
             /\ pc[t] = "rm_del_nat" =>
                   /\ OneLess(nat, nat', NatRule(l.conn_port, l.target_addr, l.target_port))
                   /\ UNCHANGED <<rows, filter, call>>
             /\ pc[t] = "rm_del_filter" =>
                   /\ OneLess(filter, filter', FilterRule(l.target_addr, l.target_port))
                   /\ UNCHANGED <<rows, nat, call>>
             /\ pc[t] = "rm_del_record" =>
                   /\ rows' = {r \in rows : r.conn_port # l.conn_port}
                   /\ UNCHANGED <<nat, filter, call>>]_vars

\* a Destroy of one of two mappings of the same target has deleted both of
\* its rules and is about to delete its record
C7_Witness ==
    /\ op[1] = "destroy"
    /\ pc[1] = "rm_del_record"
    /\ Cardinality(rows) = 2
    /\ Len(nat) = 1
    /\ nat[1].conn_port # loc[1].conn_port
    /\ nat[1].target_addr = loc[1].target_addr

\* ------------------------------------------------- what Destroy reports
\* thread t ends its Destroy in this step, in which no command failed
DestroyEnds(t) ==
    /\ op[t] = "destroy"
    /\ pc[t] \in {"find_nat", "find_filter"}
    /\ pc'[t] \in {"done", "raised"}
    /\ fails' = fails

\* C8: a Destroy of a connPort that has no record and no nat rule, while no
\* filter rule beyond the built-in ones exists, ends with status 404 and the
\* message "No such port mapping record".
C8_NotFound ==
    [][\A t \in Threads :
          (/\ DestroyEnds(t)
           /\ ~HasRecord(rows, loc[t].conn_port)
           /\ loc[t].target_port = None
           /\ NatRulesOf(nat, loc[t].conn_port) = {}
           /\ filter = DefaultFilter) =>
             /\ pc'[t] = "done"
             /\ resp'[t].status = 404
             /\ resp'[t].error = "No such port mapping record"]_vars

\* C9: a Destroy of a connPort that has a record but neither a nat rule nor
\* a filter rule of the record's target ends with status 500 and the message
\* of records_valid for that case, and leaves the record.
C9_SelfDiagnosis ==
    [][\A t \in Threads :
          (/\ DestroyEnds(t)
           /\ HasRecord(rows, loc[t].conn_port)
           /\ PortInfo(rows, loc[t].conn_port) = <<loc[t].target_port, loc[t].target_addr>>
           /\ NatRulesOf(nat, loc[t].conn_port) = {}
           /\ FilterRulesFor(filter, loc[t].target_addr, loc[t].target_port) = {}) =>
             /\ pc'[t] = "done"
             /\ resp'[t].status = 500
             /\ resp'[t].error = RecordsValid(0, 0, loc[t].target_port, loc[t].target_addr)[1]
             /\ resp'[t].error = "DB record exist, but no iptable record; contact admin."
             /\ rows' = rows]_vars

\* --------------------------------------------------------- records_valid
Present(x) == x \notin {None, 0}
PresentStr(s) == s \notin {NoneStr, ""}

\* C10: records_valid answers every combination of present and absent
\* arguments: ("", 200) exactly when all four are present; the "DB record
\* exist" message with 500 when port and address are present but not both
\* rule ids; the "iptable record exist" message with 500 when both rule ids
\* are present but not both record fields; ("No such port mapping record",
\* 404) in every other case.
C10_TotalClassification ==
    rv.out # <<>> =>
       LET nat_id == rv.args[1]
           filter_id == rv.args[2]
           db == Present(rv.args[3]) /\ PresentStr(rv.args[4])
           fw == Present(nat_id) /\ Present(filter_id)
       IN  /\ rv.out = <<"", 200>> <=> (db /\ fw)
           /\ (db /\ ~fw) =>
                 rv.out = <<"DB record exist, but no iptable record; contact admin.", 500>>
           /\ (~db /\ fw) =>
                 rv.out = <<"iptable record exist, but no DB record; contact admin.", 500>>
           /\ (~db /\ ~fw) => rv.out = <<"No such port mapping record", 404>>

\* records_valid was called with a record and only one of the two rule ids
C10_Witness ==
    /\ rv.out # <<>>
    /\ Present(rv.args[3]) /\ PresentStr(rv.args[4])
    /\ Present(rv.args[1]) /\ ~Present(rv.args[2])
    /\ rv.out[2] = 500

\* ------------------------------------------------- map_port's compensation
\* chain c2 is chain c1 without its line i
WithoutLine(c1, c2, i) ==
    /\ i \in 1..Len(c1)
    /\ Len(c2) = Len(c1) - 1
    /\ \A j \in 1..Len(c2) : c2[j] = IF j < i THEN c1[j] ELSE c1[j + 1]

\* C11: when prerouting fails after forward succeeded, map_port goes to its
\* handler without touching the filter chain; the handler issues one
\* delete_rule, of the line forward() returned in the filter chain, a rule
\* of the target; map_port then raises (the prerouting error when the
\* delete succeeded) and save_rules is not reached.
C11_UndoForward ==
    [][\A t \in Threads :
          /\ (/\ pc[t] \in {"map_pre_append", "map_pre_find"}
              /\ Took(t)
              /\ pc'[t] \notin {"map_pre_find", "map_save"}) =>
                /\ pc'[t] = "map_undo"
                /\ loc'[t].forward_id = loc[t].forward_id
                /\ filter' = filter
                /\ rows' = rows
          /\ (pc[t] = "map_undo" /\ Took(t)) =>
                /\ pc'[t] \in {"post_except", "done"}
                /\ nat' = nat
                /\ rows' = rows
                /\ fails' = fails =>
                      /\ filter[loc[t].forward_id]
                            = FilterRule(loc[t].target_addr, loc[t].target_port)
                      /\ WithoutLine(filter, filter', loc[t].forward_id)
                      /\ op[t] = "create" => loc'[t].doh = loc[t].doh
                      /\ op[t] = "destroy" => resp'[t].error = loc[t].doh
                /\ fails' # fails => filter' = filter]_vars

\* a Create whose nat listing failed is in post's handler, the forward rule
\* deleted again
C11_Witness ==
    /\ op[1] = "create"
    /\ pc[1] = "post_except"
    /\ loc[1].doh = E_LIST_NAT
    /\ fails = 1
    /\ Len(nat) = 1
    /\ FilterRulesFor(filter, loc[1].target_addr, loc[1].target_port) = {}

\* C12: when the compensating action fails, the caller still gets the
\* original error: map_port raises the prerouting error though its
\* delete_rule failed, and post answers with map_port's error though its
\* delete_port failed.
C12_OriginalError ==
    [][\A t \in Threads :
          /\ (pc[t] = "map_undo" /\ Took(t) /\ op[t] = "create") =>
                /\ pc'[t] = "post_except"
                /\ loc'[t].doh = loc[t].doh
          /\ (pc[t] = "post_except" /\ Took(t)) =>
                /\ pc'[t] = "done"
                /\ resp'[t].status = 500
                /\ resp'[t].error = loc[t].doh]_vars

\* ------------------------------------------- remove_port_map's compensation
\* thread t, handling a Destroy, takes a step from label at
DestroyStep(t, at) == op[t] = "destroy" /\ pc[t] = at /\ Took(t)

\* C13: a Destroy whose delete of the filter rule failed ends, when its
\* handler ran without a further failure, with the record, the nat rule of
\* the connPort and a filter rule of the target in place.
C13_FirstDeleteUndone ==
    [][\A t \in Threads :
          (DestroyStep(t, "rm_save") /\ fails' = fails) =>
             /\ HasRecord(rows', loc[t].conn_port)
             /\ NatRulesFor(nat', loc[t].conn_port, loc[t].target_addr,
                            loc[t].target_port) # {}
             /\ FilterRulesFor(filter', loc[t].target_addr, loc[t].target_port) # {}]_vars

\* C14: when the delete of the filter rule fails, remove_port_map calls
\* forward(target_port, target_addr) once (one append, one lookup) and then
\* save_rules, never delete_port; the nat chain stays as the first delete
\* left it, the record stays, and the Destroy answers 500 with the message
\* of the failed delete.
C14_ForwardThenSave ==
    [][\A t \in Threads :
          /\ (DestroyStep(t, "rm_del_filter") /\ pc'[t] # "rm_del_record") =>
                /\ pc'[t] = "rm_fwd_append"
                /\ loc'[t].doh = E_DEL_FILTER
                /\ UNCHANGED <<rows, nat, filter, call>>
          /\ (DestroyStep(t, "rm_fwd_append") /\ fails' = fails) =>
                /\ pc'[t] = "rm_fwd_find"
                /\ filter' = Append(filter, FilterRule(loc[t].target_addr,
                                                       loc[t].target_port))
                /\ UNCHANGED <<rows, nat, call>>
          /\ (DestroyStep(t, "rm_fwd_find") /\ fails' = fails) =>
                /\ pc'[t] = "rm_save"
                /\ UNCHANGED <<rows, nat, filter, call>>
          /\ (DestroyStep(t, "rm_save") /\ fails' = fails) =>
                /\ pc'[t] = "done"
                /\ resp'[t].status = 500
                /\ resp'[t].error = E_DEL_FILTER
                /\ UNCHANGED <<rows, nat, filter, call>>
          /\ (\E at \in {"rm_fwd_append", "rm_fwd_find", "rm_save"} :
                 DestroyStep(t, at)) =>
                /\ pc'[t] \in {"rm_fwd_find", "rm_save", "done"}
                /\ HasRecord(rows', loc[t].conn_port)
                /\ UNCHANGED <<rows, nat, call>>]_vars

\* a Destroy has answered 500 after a failed delete of the filter rule: the
\* record is there, the nat rule is gone, the target has two filter rules
C14_Witness ==
    /\ op[1] = "destroy"
    /\ pc[1] = "done"
    /\ resp[1].status = 500
    /\ resp[1].error = E_DEL_FILTER
    /\ Cardinality(rows) = 1
    /\ nat = <<>>
    /\ \E r \in rows :
          Cardinality(FilterRulesFor(filter, r.target_addr, r.target_port)) = 2

\* C15: when delete_port fails after both rules were deleted,
\* remove_port_map calls map_port once, the record stays, and the Destroy
\* answers 500 with the message of the failed delete_port, also when the
\* compensating map_port fails.
C15_RecreateBoth ==
    [][\A t \in Threads :
          /\ (DestroyStep(t, "rm_del_record") /\ pc'[t] # "done") =>
                /\ pc'[t] = "map_enter"
                /\ loc'[t].doh = E_DB_DELETE
                /\ UNCHANGED <<rows, nat, filter, call>>
          /\ (/\ \E at \in {"map_fwd_append", "map_fwd_find", "map_pre_append",
                            "map_pre_find", "map_undo", "map_save"} :
                    DestroyStep(t, at)
              /\ pc'[t] \in {"done", "raised"}) =>
                /\ pc'[t] = "done"
                /\ resp'[t].status = 500
                /\ resp'[t].error = E_DB_DELETE
                /\ HasRecord(rows', loc[t].conn_port)]_vars

\* ------------------------------------------------- a failed add_port in post
\* C16: when add_port raises in a Create, the Create answers 500 with
\* add_port's error (the store's error or the tries-exceeded error) and
\* nothing was changed: no row, no rule.
C16_AddRecordFails ==
    [][\A t \in Threads :
          (/\ op[t] = "create"
           /\ pc[t] = "add_port"
           /\ Took(t)
           /\ pc'[t] \notin {"add_port", "map_enter"}) =>
             /\ pc'[t] = "done"
             /\ resp'[t].status = 500
             /\ resp'[t].error \in {E_DB_INSERT, E_MAX_TRIES}
             /\ UNCHANGED <<rows, nat, filter, call>>]_vars

\* ------------------------------------------------------ add_port's loop
Attempts == Len(ap.codes)
AllRejected(k) == \A j \in 1..k : ap.codes[j] = "23505"

\* what holds of every state of a call of add_port, for C17
RetryOnCollision ==
    /\ \A k \in 1..Attempts :
          (ap.codes[k] = "23505" /\ k < VLAB_INSERT_MAX_TRIES) =>
             (ap.out = "running" \/ Attempts > k)
    /\ ap.out = "return" =>
          /\ Attempts <= VLAB_INSERT_MAX_TRIES
          /\ ap.codes[Attempts] = "00000"
          /\ AllRejected(Attempts - 1)
          /\ ap.value = ap.ports[Attempts]
          /\ ap.value \in VLAB_PORT_MIN..VLAB_PORT_MAX
          /\ rows = ap.table \cup {Row(ap.value, ap.args[1], ap.args[2],
                                       ap.args[3], ap.args[4])}

\* C17: an insert rejected with pgcode 23505 while tries remain is followed
\* by another insert; when attempt k is the first accepted one, add_port
\* returns the port of attempt k, a port of [VLAB_PORT_MIN, VLAB_PORT_MAX],
\* after exactly k inserts, the row of that port being the only new row.
C17_RetryOnCollision ==
    /\ []RetryOnCollision
    /\ \A k \in 1..(VLAB_INSERT_MAX_TRIES - 1) :
          (ap.out = "running" /\ Attempts = k) ~> (Attempts > k)

\* add_port returned the port of its second insert after a collision
C17_Witness ==
    /\ ap.out = "return"
    /\ Attempts = 2
    /\ ap.codes[1] = "23505"
    /\ ap.value # ap.ports[1]

\* what holds of every state of a call of add_port, for C18
BoundedTries ==
    /\ Attempts <= VLAB_INSERT_MAX_TRIES
    /\ (Attempts = VLAB_INSERT_MAX_TRIES /\ AllRejected(Attempts)) =>
          /\ ap.out = "RuntimeError"
          /\ ap.error = E_MAX_TRIES
          /\ ap.error # E_DB_INSERT
          /\ rows = ap.table
    /\ ap.out = "RuntimeError" =>
          (Attempts = VLAB_INSERT_MAX_TRIES /\ AllRejected(Attempts))

\* C18: add_port ends; it makes at most VLAB_INSERT_MAX_TRIES inserts, and
\* when every one of them is rejected with pgcode 23505 it raises
\* RuntimeError (not the store's DatabaseError) and has inserted no row.
C18_Terminates ==
    /\ []BoundedTries
    /\ <>(ap.out # "running")

\* add_port gave up after VLAB_INSERT_MAX_TRIES collisions
C18_Witness ==
    /\ ap.out = "RuntimeError"
    /\ Attempts = VLAB_INSERT_MAX_TRIES
    /\ AllRejected(Attempts)

\* C19: an insert that fails with a pgcode other than 23505 is the last
\* insert of the call: add_port raises the store's DatabaseError with that
\* pgcode and has inserted no row.
C19_OtherErrorsPropagate ==
    /\ \A k \in 1..Attempts :
          ap.codes[k] \notin {"00000", "23505"} =>
             /\ k = Attempts
             /\ ap.out = "DatabaseError"
             /\ ap.error = E_DB_INSERT
             /\ ap.pgcode = ap.codes[k]
             /\ rows = ap.table
    /\ ap.out = "DatabaseError" =>
          (Attempts > 0 /\ ap.codes[Attempts] \notin {"00000", "23505"})

\* the store failed on the second insert, after a collision on the first
C19_Witness ==
    /\ ap.out = "DatabaseError"
    /\ Attempts = 2
    /\ ap.codes = <<"23505", "08006">>

\* C20: add_port raises the tries-exceeded error only when every port of
\* [VLAB_PORT_MIN, VLAB_PORT_MAX] has a row.
C20_OnlyWhenSaturated ==
    ap.out = "RuntimeError" =>
       \A p \in VLAB_PORT_MIN..VLAB_PORT_MAX : HasRecord(rows, p)

\* ------------------------------------------------------------------ C21
\* the table a delete_port call found, and the table it left
TableBefore(i) == IF i = 1 THEN call.table ELSE call.hist[i - 1].rows
TableAfter(i) == call.hist[i].rows

\* C21: delete_port is idempotent.  A DELETE that executes leaves no row
\* with the given conn_port, removes no row with another conn_port and adds
\* none; when no row has the conn_port it returns without error and leaves
\* the table as it was, so a second delete changes nothing.
C21_DeleteIdempotent ==
    call.fn = "delete_port" =>
       \A i \in 1..Len(call.hist) :
          call.hist[i].ok =>
             /\ ~HasRecord(TableAfter(i), call.args[1])
             /\ TableAfter(i) \subseteq TableBefore(i)
             /\ \A r \in TableBefore(i) :
                   r.conn_port # call.args[1] => r \in TableAfter(i)
             /\ ~HasRecord(TableBefore(i), call.args[1]) =>
                   /\ TableAfter(i) = TableBefore(i)
                   /\ i = Len(call.hist) => call.out = "return"
             /\ (i > 1 /\ call.hist[i - 1].ok) => TableAfter(i) = TableBefore(i)

\* the conn_port of one of two rows has been deleted twice
C21_Witness ==
    /\ call.fn = "delete_port"
    /\ Len(call.hist) = 2
    /\ call.hist[1].ok /\ call.hist[2].ok
    /\ HasRecord(call.table, call.args[1])
    /\ \E r \in call.table : r.conn_port # call.args[1]
    /\ Cardinality(rows) = 1

\* ------------------------------------------------------------------ C22
\* an argument that is None, 0 or '' is an omitted filter
Satisfies(r, name, addr, component, conn_port, target_port) ==
    /\ name \in {NoneStr, ""} \/ Like(r.target_name, name)
    /\ addr \in {NoneStr, ""} \/ Like(r.target_addr, addr)
    /\ component \in {NoneStr, ""} \/ Like(r.target_component, component)
    /\ conn_port \in {None, 0} \/ r.conn_port = conn_port
    /\ target_port \in {None, 0} \/ r.target_port = target_port

\* C22: lookup_port returns exactly the rows that satisfy every supplied
\* filter, keyed by conn_port with the row's name, address, target port and
\* component; an omitted filter constrains nothing, so without filters
\* every row is returned.
C22_LookupByFilter ==
    (call.fn = "lookup_port" /\ call.out = "return") =>
       /\ \A r \in rows :
             r.conn_port \in DOMAIN call.value
                <=> Satisfies(r, call.args[1], call.args[2], call.args[3],
                              call.args[4], call.args[5])
       /\ \A p \in DOMAIN call.value :
             \E r \in rows :
                /\ r.conn_port = p
                /\ call.value[p] = [name |-> r.target_name,
                                    target_addr |-> r.target_addr,
                                    target_port |-> r.target_port,
                                    component |-> r.target_component]
       /\ (\A i \in 1..3 : call.args[i] \in {NoneStr, ""})
             /\ (\A i \in 4..5 : call.args[i] \in {None, 0})
             => DOMAIN call.value = {r.conn_port : r \in rows}

\* two filters were supplied, each met by one of the two rows, and only the
\* row that meets both was returned
C22_Witness ==
    /\ call.fn = "lookup_port" /\ call.out = "return"
    /\ call.args[2] = "10.0.0.1" /\ call.args[3] = "OneFS"
    /\ call.args[1] = NoneStr /\ call.args[4] = None /\ call.args[5] = None
    /\ Cardinality(rows) = 2
    /\ \E r \in rows : r.target_addr = "10.0.0.1" /\ r.target_component = "OneFS"
    /\ \E r \in rows : r.target_addr = "10.0.0.1" /\ r.target_component # "OneFS"
    /\ Cardinality(DOMAIN call.value) = 1

\* ------------------------------------------------------------------ C23
\* C23: lookup_addr applies every supplied filter: each address it reports
\* for a machine is the address of a row of that machine that satisfies all
\* of the name, addr and component filters supplied.
C23_AllFiltersApply ==
    (call.fn = "lookup_addr" /\ call.out = "return") =>
       \A n \in DOMAIN call.value :
          \A i \in DOMAIN call.value[n].addr :
             \E r \in rows :
                /\ r.target_name = n
                /\ r.target_addr = call.value[n].addr[i]
                /\ Satisfies(r, call.args[1], call.args[2], call.args[3],
                             None, None)

\* ------------------------------------------------------------------ C24
\* at most one of the three filters is supplied
AtMostOneFilter ==
    Cardinality({i \in 1..3 : call.args[i] \notin {NoneStr, ""}}) <= 1

\* C24: lookup_addr groups by machine name and reports for every machine
\* the distinct addresses of its matching rows: every such address is
\* listed, and none is listed twice, whatever the component and routable
\* values of the rows.
C24_DistinctAddresses ==
    (call.fn = "lookup_addr" /\ call.out = "return" /\ AtMostOneFilter) =>
       /\ \A r \in rows :
             Satisfies(r, call.args[1], call.args[2], call.args[3], None, None)
                => /\ r.target_name \in DOMAIN call.value
                   /\ \E i \in DOMAIN call.value[r.target_name].addr :
                         call.value[r.target_name].addr[i] = r.target_addr
       /\ \A n \in DOMAIN call.value :
             \A i \in DOMAIN call.value[n].addr,
                j \in DOMAIN call.value[n].addr :
                call.value[n].addr[i] = call.value[n].addr[j] => i = j

\* ------------------------------------------------------------------ C25
\* the lines of the listed table that hold the rule find_rule was asked
\* for: target and, in the nat table, conn_port
MatchingLines ==
    IF call.args[3] = "nat"
    THEN {i \in 1..Len(nat) :
             nat[i] = NatRule(call.args[4], call.args[2], call.args[1])}
    ELSE {i \in 1..Len(filter) :
             filter[i] = FilterRule(call.args[2], call.args[1])}

FindRuleEnded ==
    /\ call.fn = "find_rule"
    /\ call.args[3] \in {"nat", "filter"}
    /\ call.out \in {"return", "RuntimeError"}

\* C25: find_rule returns the line number of the first listed rule with the
\* target (and, in the nat table, the conn_port) asked for; when no rule
\* matches it raises RuntimeError, and it never returns zero.
C25_FirstMatch ==
    FindRuleEnded =>
       /\ MatchingLines = {} => call.out = "RuntimeError"
       /\ MatchingLines # {} =>
             call.out = "return" /\ call.value = SetMin(MatchingLines)
       /\ call.out = "return" => call.value # 0

\* ------------------------------------------------------------------ C26
\* C26: in the filter table find_rule matches on the target alone: a filter
\* rule with the target asked for is found whether or not the caller
\* passes a conn_port.
C26_FilterIgnoresConnPort ==
    (FindRuleEnded /\ call.args[3] = "filter"
       /\ \E i \in 1..Len(filter) :
             filter[i] = FilterRule(call.args[2], call.args[1]))
       => call.out = "return"

\* ------------------------------------------------------------------ C27
\* the call has returned or raised
MethodEnded == call.out \notin {"none", "locked"}

\* C27: invalid arguments are rejected before any iptables command runs:
\* delete_rule and show with a table other than 'nat' and 'filter' raise
\* ValueError, find_rule on the nat table without conn_port raises
\* ValueError without listing; the tables are as they were and the guard
\* is free afterwards.
C27_InvalidArguments ==
    /\ (call.fn \in {"delete_rule", "show"} /\ MethodEnded
          /\ call.args[IF call.fn = "show" THEN 1 ELSE 2] \notin {"nat", "filter"})
          => call.out = "ValueError"
    /\ (call.fn = "find_rule" /\ MethodEnded
          /\ call.args[3] = "nat" /\ call.args[4] = None)
          => call.out = "ValueError"
    /\ (call.fn \in {"delete_rule", "show", "find_rule"}
          /\ call.out = "ValueError")
          => /\ call.hist = <<>>
             /\ <<nat, filter>> = call.table
             /\ rlock = [owner |-> 0, count |-> 0]

\* delete_rule was asked to delete an existing line number of a table it
\* does not support, and raised ValueError
C27_Witness ==
    /\ call.fn = "delete_rule"
    /\ call.args[2] = "mangle"
    /\ call.args[1] = 3
    /\ Len(filter) >= 3 /\ Len(nat) >= 1
    /\ call.out = "ValueError"

\* ------------------------------------------------------------------ C28
\* thread u has changed a rule table in its MapPort or Destroy sequence and
\* has not yet finished the sequence
MidSequence(u) ==
    pc[u] \in {"map_fwd_find", "map_pre_append", "map_pre_find", "map_undo",
               "map_save", "rm_del_filter", "rm_fwd_append", "rm_fwd_find",
               "rm_save"}

\* thread t lists a rule table for the health check in this step
HealthLists(t) ==
    /\ pc[t] \in {"health_nat", "health_filter"}
    /\ pc'[t] # pc[t]

\* C28: every listing of a rule table, those of the health check included,
\* is serialized by the application's one guard: no listing is taken while
\* another thread is between two steps of its MapPort or Destroy sequence.
C28_ReadsSerialized ==
    [][\A t \in Threads :
          HealthLists(t) => \A u \in Threads \ {t} : ~MidSequence(u)]_vars

\* ------------------------------------------------------------------ C29
\* thread t has appended its rule in a standalone forward or prerouting and
\* has not yet looked its position up
BetweenAppendAndLookup(t) ==
    pc[t] \in {"sa_fwd_find", "sa_fwd_list", "sa_pre_find", "sa_pre_list"}

\* C29: a standalone forward or prerouting holds the guard from its append
\* to its lookup: while a thread is between the two, no other thread
\* changes a rule table.
C29_StandaloneHoldsGuard ==
    [][\A t \in Threads :
          (BetweenAppendAndLookup(t) /\ pc'[t] = pc[t])
             => UNCHANGED <<nat, filter>>]_vars

\* ------------------------------------------------------------------ C30
\* the commands of map_port, in the order of the code
MapPortChain == <<"map_enter", "map_fwd_append", "map_fwd_find",
                  "map_pre_append", "map_pre_find", "map_save">>

\* C30: map_port runs forward, then prerouting, then save_rules, each once
\* and in this order, holding the guard all the while; save_rules runs only
\* after both rules were created and found, and map_port then returns the
\* line numbers of the filter rule and of the nat rule.
C30_MapPortOrder ==
    [][\A t \in Threads :
          /\ \A i \in 2..6 :
                (pc'[t] = MapPortChain[i] /\ pc[t] # MapPortChain[i])
                   => pc[t] = MapPortChain[i - 1]
          /\ (\E i \in 2..6 : pc[t] = MapPortChain[i]) => rlock.owner = t
          /\ (pc'[t] = "map_save" /\ pc[t] # "map_save") =>
                /\ loc'[t].forward_id \in 1..Len(filter')
                /\ filter'[loc'[t].forward_id]
                      = FilterRule(loc'[t].target_addr, loc'[t].target_port)
                /\ loc'[t].prerouting_id \in 1..Len(nat')
                /\ nat'[loc'[t].prerouting_id]
                      = NatRule(loc'[t].conn_port, loc'[t].target_addr,
                                loc'[t].target_port)
          /\ (pc[t] = "map_save" /\ pc'[t] # "map_save") =>
                /\ \A i \in 1..6 : pc'[t] # MapPortChain[i]
                /\ loc[t].forward_id # 0 /\ loc[t].prerouting_id # 0
                /\ filter[loc[t].forward_id]
                      = FilterRule(loc[t].target_addr, loc[t].target_port)
                /\ nat[loc[t].prerouting_id]
                      = NatRule(loc[t].conn_port, loc[t].target_addr,
                                loc[t].target_port)]_vars

\* a map_port has failed before its save_rules, and a Create whose map_port
\* ran to its end has answered 200
C30_Witness ==
    /\ fails = 1
    /\ nat # <<>>
    /\ \E t \in Threads :
          /\ op[t] = "create" /\ pc[t] = "done" /\ resp[t].status = 200
          /\ \E u \in Threads \ {t} :
                op[u] = "create" /\ pc[u] = "done" /\ resp[u].status = 500
                   /\ resp[u].error \in {E_PRE_APPEND, E_LIST_NAT}

\* ------------------------------------------------------------------ C31
\* C31: during and after the map_port of a Create on empty tables, failure
\* and compensation paths included, every nat rule has a filter rule of its
\* target beside it.
C31_NatNeedsFilter ==
    (reqs = 1 /\ op[1] = "create") =>
       \A i \in 1..Len(nat) :
          FilterRulesFor(filter, nat[i].target_addr, nat[i].target_port) # {}

\* ------------------------------------------------------------------ C32
\* a nat rule of conn_port exists only beside the record of conn_port
RulesNeedRecord(rs, n, conn_port) ==
    NatRulesOf(n, conn_port) # {} => HasRecord(rs, conn_port)

\* C32: Destroy deletes the nat rule, then the filter rule, then the record:
\* delete_port runs only after both delete_rule calls succeeded, and no step
\* of a Destroy leaves a nat rule of its conn_port without the record.
C32_RulesBeforeRecord ==
    [][\A t \in Threads :
          (op[t] = "destroy" /\ Took(t)) =>
             /\ (pc'[t] = "rm_del_filter" /\ pc[t] # "rm_del_filter")
                   => pc[t] = "rm_del_nat" /\ Len(nat') = Len(nat) - 1
             /\ (pc'[t] = "rm_del_record" /\ pc[t] # "rm_del_record")
                   => pc[t] = "rm_del_filter" /\ Len(filter') = Len(filter) - 1
             /\ rows' # rows => pc[t] = "rm_del_record"
             /\ RulesNeedRecord(rows, nat, loc[t].conn_port)
                   => RulesNeedRecord(rows', nat', loc[t].conn_port)]_vars

\* ------------------------------------------------------------------ C33
\* a row without its routable column
Unprobed(r) == [r EXCEPT !.routable = "NULL"]

\* the step is an update of the prober / a read of a store
ProberStep == call'.fn = "update_record" /\ \A t \in Threads : ~Took(t)
ReadStep ==
    \/ call'.fn \in {"lookup_port", "lookup_addr"} /\ \A t \in Threads : ~Took(t)
    \/ \E t \in Threads :
          Took(t) /\ pc[t] \in {"port_info", "find_nat", "find_filter"}

\* C33: Create and Destroy never change the routable column of an existing
\* row; the prober's update changes only the routable column of the rows of
\* its (target_name, target_addr), inserts and deletes no row and touches no
\* rule table; port_info, lookup_port, lookup_addr and find_rule (with its show)
\* change neither the store nor the rule tables.
C33_Frame ==
    [][/\ (\E t \in Threads : Took(t)) =>
             \A r \in rows, r2 \in rows' :
                r.conn_port = r2.conn_port => r2 = r
       /\ ProberStep =>
             /\ UNCHANGED <<nat, filter>>
             /\ Cardinality(rows') = Cardinality(rows)
             /\ \A r \in rows :
                   \/ r \in rows'
                   \/ /\ r.target_name = call'.args[1]
                      /\ r.target_addr = call'.args[2]
                      /\ [r EXCEPT !.routable = call'.args[3]] \in rows'
       /\ ReadStep => UNCHANGED <<rows, nat, filter>>]_vars

\* the prober has marked one of two rows, and the row of the other address
\* is as Create inserted it
C33_Witness ==
    /\ call.fn = "update_record" /\ call.out = "return"
    /\ \E r1 \in rows, r2 \in rows :
          /\ r1.target_addr = call.args[2] /\ r1.routable = call.args[3]
          /\ r2.target_addr # call.args[2] /\ r2.routable = "NULL"

\* ------------------------------------------------------------------ C34
\* C34: when the map_port of a Create has raised, the nat and the filter
\* table hold exactly the rules they held before the call.
C34_RaiseRestoresTables ==
    (op[1] = "create" /\ pc[1] = "post_except") =>
       /\ nat = before.nat
       /\ filter = before.filter

\* ------------------------------------------------------------------ C35
\* the lookup of forward (of prerouting) returns in this step
ForwardReturns(t) ==
    pc[t] \in {"map_fwd_find", "rm_fwd_find"} /\ loc'[t].forward_id # 0
PreroutingReturns(t) == pc[t] = "map_pre_find" /\ pc'[t] = "map_save"

\* C35: forward and prerouting return the line number of the rule they have
\* just appended, which is the last line of the table, also when an earlier
\* line holds a rule of the same target.
C35_ReturnsAppendedRule ==
    [][\A t \in Threads :
          /\ ForwardReturns(t) => loc'[t].forward_id = Len(filter)
          /\ PreroutingReturns(t) => loc'[t].prerouting_id = Len(nat)]_vars

\* ------------------------------------------------------------------ C36
\* the mapping of conn_port is live: its record, its nat rule and a filter
\* rule of its target exist
\* (a conn_port whose Create has not answered 200 is not a mapping yet)
Live(rs, n, f, conn_port) ==
    /\ \A t \in Threads :
          (op[t] = "create" /\ loc[t].conn_port = conn_port) =>
             (pc[t] = "done" /\ resp[t].status = 200)
    /\ \E r \in rs :
          /\ r.conn_port = conn_port
          /\ NatRulesFor(n, conn_port, r.target_addr, r.target_port) # {}
          /\ FilterRulesFor(f, r.target_addr, r.target_port) # {}

\* C36: a Destroy removes only the mapping of its conn_port: no step of it
\* ends the mapping of another conn_port, also one with the same target; and
\* the line numbers find_rule returned are the lines of the mapping's own
\* rules when the two delete_rule commands run, whatever the other threads
\* do meanwhile.
C36_RemovesOnlyItsMapping ==
    [][\A t \in Threads :
          (op[t] = "destroy" /\ Took(t)) =>
             /\ \A m \in Ports \ {loc[t].conn_port} :
                   Live(rows, nat, filter, m) => Live(rows', nat', filter', m)
             /\ pc[t] = "rm_del_nat" =>
                   /\ loc[t].nat_id \in 1..Len(nat)
                   /\ nat[loc[t].nat_id] = NatRule(loc[t].conn_port,
                                                   loc[t].target_addr,
                                                   loc[t].target_port)
             /\ pc[t] = "rm_del_filter" =>
                   /\ loc[t].filter_id \in 3..Len(filter)
                   /\ filter[loc[t].filter_id] = FilterRule(loc[t].target_addr,
                                                            loc[t].target_port)]_vars

\* ------------------------------------------------------------------ C37
\* how many ``with`` blocks of the guard thread t is inside: map_port's
\* ``with self`` (firewall.py:55), delete's ``with current_app.firewall``
\* (portmap.py:157), both when map_port is remove_port_map's compensation,
\* the ``with self`` of a method the caller called on its own, and the
\* ``with self`` of show() under a forward or prerouting called on its own
InMapPort(t) ==
    pc[t] \in {"map_fwd_append", "map_fwd_find", "map_pre_append",
               "map_pre_find", "map_undo", "map_save"}
InDelete(t) ==
    /\ op[t] = "destroy"
    /\ pc[t] \notin {"idle", "done", "raised", "port_info", "fw_enter"}
InWith(t) == t = Caller /\ call.fn # "none" /\ call.out = "locked"
InShow(t) == pc[t] \in {"sa_fwd_list", "sa_pre_list"}
Depth(t) == (IF InMapPort(t) THEN 1 ELSE 0) + (IF InDelete(t) THEN 1 ELSE 0)
            + (IF InWith(t) THEN 1 ELSE 0) + (IF InShow(t) THEN 1 ELSE 0)

\* the next step of thread t
Move(t) ==
    \/ Step(t)
    \/ Standalone(t)
    \/ t = Caller /\ (ShowBody \/ FindRuleBody \/ DeleteRuleBody)

\* C37: the guard is held as many times as its holder is inside ``with``
\* blocks of it, and by nobody else: every acquisition is released once on
\* every path, also when a method raises for its table, a command fails or a
\* compensation fails; a thread whose request or method call has returned or
\* raised holds it zero times; and the thread that holds the guard can take
\* its next step, also when that step enters the guard again.
C37_GuardBalance ==
    /\ (rlock.owner = 0) <=> (rlock.count = 0)
    /\ \A t \in Threads :
          /\ Depth(t) = (IF rlock.owner = t THEN rlock.count ELSE 0)
          /\ (Free(t) /\ ~InWith(t)) => rlock.owner # t
          /\ rlock.owner = t => ENABLED Move(t)

\* a Destroy has answered 500 after its compensating map_port raised inside
\* both ``with`` blocks (prerouting failed, the undo ran), a method called
\* for an unsupported table has raised ValueError, and the guard is free
C37_Witness ==
    /\ \E t \in Threads :
          /\ op[t] = "destroy" /\ pc[t] = "done" /\ resp[t].status = 500
          /\ resp[t].error \in {E_PRE_APPEND, E_PRE_LOST, E_LIST_NAT}
    /\ call.fn \in {"show", "find_rule", "delete_rule"}
    /\ call.out = "ValueError"
    /\ rlock = [owner |-> 0, count |-> 0]

\* ------------------------------------------------------------------ C38
\* C38: under fair scheduling the requests all end: from some point on every
\* thread has answered its request (returned, or the exception left the
\* view) and stays free, so no thread waits for the guard or the store
\* forever.
C38_Progress ==
    <>[](\A t \in Threads : Free(t))

\* two requests ran side by side and both have been answered
C38_Witness ==
    /\ reqs = MaxReqs
    /\ \A t \in Threads : pc[t] \in {"done", "raised"}
    /\ \A t \in Threads : resp[t].status \in {200, 500}

\* ------------------------------------------------------------------ C39
\* C39: once do_work has found a worker not alive it drains the queue,
\* clears keep_running on every worker, joins them and returns.
C39_ShutdownReturns ==
    (pool.do_work = "empty") ~> (pool.do_work = "returned")

\* ------------------------------------------------------------------ C40
\* C40: a worker whose keep_running has been cleared ends its run(): its
\* wait on the queue times out and the loop condition is read again; and a
\* worker that raised has keep_running False and is not alive.
C40_WorkerTerminates ==
    /\ \A w \in Workers : (~pool.keep_running[w]) ~> (~IsAlive(w))
    /\ [](\A w \in Workers : pool.run[w] = "raised" => ~pool.keep_running[w])

\* terminate_workers cleared keep_running of a worker that was waiting on the
\* queue, and its run() has returned
C40_Witness ==
    /\ pool.do_work \in {"join", "returned"}
    /\ \E w \in Workers : pool.run[w] = "returned" /\ ~pool.keep_running[w]
    /\ \E w \in Workers : pool.run[w] = "raised"


====
